---- MODULE Spec2Model ----
(***************************************************************************)
(* A model of the agentic knowledge-graph pipeline:                        *)
(*   - DynamicKnowledgeGraphBuilder.build_complete_graph and reset_graph   *)
(*     (src/src/pipeline/dynamic_builder.py),                              *)
(*   - the load_or_generate steps of the three planning agents,            *)
(*   - AutomatedStructuredAgent.construct_domain_graph (the materializer), *)
(*   - AutomatedLinkageAgent (entity resolution),                          *)
(*   - drop_neo4j_indexes / clear_neo4j_data (src/notebooks/tools.py).     *)
(* The graph store (graphdb.send_query) is an external collaborator: each  *)
(* query either succeeds or returns an error status, chosen by the         *)
(* environment.                                                            *)
(***************************************************************************)
EXTENDS Integers, Sequences, FiniteSets, TLC

\* ------------------------------------------------------------------ bounds
MaxRuns == 2          \* build_complete_graph invocations in one behaviour
MaxText == 2          \* text files the file selection can approve
MaxLimit == 1         \* largest limit_text_files argument tried
MaxFail == 1          \* failures (store errors, exceptions) within one call
MaxCalls == 2         \* calls of the linkage agent in one behaviour
MaxFiles == 3         \* tabular files handed to the schema agent
MaxToolCalls == 1     \* calls of the schema tools in one behaviour, made first

\* Line 38 of schema_agent.py: the analysis samples the first 11 rows.
SampleSize == 11

VARIABLES
    pc,                       \* position inside build_complete_graph
    runNo,                    \* number of top-level calls so far
    reset,                    \* argument reset
    force_regenerate_plans,   \* argument force_regenerate_plans
    limit_text_files,         \* argument limit_text_files (NoLimit = None)
    csv_files,                \* the tabular files handed to the schema agent
    goal_file,                \* generated_plans/approved_user_goal.json
    selection_file,           \* generated_plans/approved_files.json
    construction_file,        \* generated_plans/construction_plan.json
    extraction_file,          \* generated_plans/extraction_plan.json
    goal,                     \* local goal
    file_selection,           \* local file_selection
    selected_text,            \* local selected_text
    construction_plan,        \* local construction_plan
    extraction_plan,          \* local extraction_plan
    status,                   \* results['status']
    started,                  \* history: phases started in this run
    returned,                 \* history: phases that returned in this run
    mode,                     \* history: what each load_or_* step did
    hist,                     \* history: the state the current call started from
    constraints,              \* store: uniqueness constraints
    indexes,                  \* store: indexes
    nodes,                    \* store: nodes
    rels,                     \* store: relationships other than CORRESPONDS_TO
    edges,                    \* store: CORRESPONDS_TO relationships
    oplog,                    \* history: queries sent to the store by the call
    similarity_threshold,     \* AutomatedLinkageAgent.similarity_threshold
    results,                  \* result document of the last handler call
    outcome,                  \* history: per-subject branch taken by resolution
    faults                    \* failures the environment injected into this call

vars == <<pc, runNo, reset, csv_files, force_regenerate_plans,
          limit_text_files,
          goal_file, selection_file, construction_file, extraction_file,
          goal, file_selection, selected_text, construction_plan,
          extraction_plan, status, started, returned, mode, hist,
          constraints, indexes, nodes, rels, edges, oplog,
          similarity_threshold, results, outcome, faults>>

pipelineVars == <<pc, runNo, reset, csv_files, force_regenerate_plans,
          limit_text_files,
                  goal_file, selection_file, construction_file,
                  extraction_file, goal, file_selection, selected_text,
                  construction_plan, extraction_plan, status, started,
                  returned, mode, hist>>

storeVars == <<constraints, indexes, nodes, rels, edges>>

\* ------------------------------------------------------------- sequences
RECURSIVE SeqToSet(_)
SeqToSet(s) == IF s = <<>> THEN {} ELSE {Head(s)} \cup SeqToSet(Tail(s))

RECURSIVE FilterSeq(_, _)
FilterSeq(s, keep) ==
    IF s = <<>> THEN <<>>
    ELSE IF Head(s) \in keep THEN <<Head(s)>> \o FilterSeq(Tail(s), keep)
         ELSE FilterSeq(Tail(s), keep)

Min2(a, b) == IF a <= b THEN a ELSE b
Max2(a, b) == IF a >= b THEN a ELSE b

\* ---------------------------------------------------------------- strings
\* A string is a sequence of one-character strings.  Absent stands for a
\* property key that the node does not have (dict key missing).
Absent == <<"<absent>">>

Capitals ==
    <<"A", "B", "C", "D", "E", "F", "G", "H", "I", "J", "K", "L", "M",
      "N", "O", "P", "Q", "R", "S", "T", "U", "V", "W", "X", "Y", "Z">>

Smalls ==
    <<"a", "b", "c", "d", "e", "f", "g", "h", "i", "j", "k", "l", "m",
      "n", "o", "p", "q", "r", "s", "t", "u", "v", "w", "x", "y", "z">>

\* str.lower() and str.upper() character by character.
ToLower == [c \in SeqToSet(Capitals) |-> Smalls[CHOOSE i \in 1..26 : Capitals[i] = c]]
ToUpper == [c \in SeqToSet(Smalls) |-> Capitals[CHOOSE i \in 1..26 : Smalls[i] = c]]

Lower(c) == IF c \in DOMAIN ToLower THEN ToLower[c] ELSE c
Upper(c) == IF c \in DOMAIN ToUpper THEN ToUpper[c] ELSE c

StrLower(s) == [i \in 1..Len(s) |-> Lower(s[i])]
StrUpper(s) == [i \in 1..Len(s) |-> Upper(s[i])]

RECURSIVE LStrip(_)
LStrip(s) == IF s # <<>> /\ Head(s) = " " THEN LStrip(Tail(s)) ELSE s

RECURSIVE RStrip(_)
RStrip(s) == IF s # <<>> /\ s[Len(s)] = " "
             THEN RStrip(SubSeq(s, 1, Len(s) - 1)) ELSE s

StrStrip(s) == RStrip(LStrip(s))

\* Python truthiness of a property value: None and "" are falsy.
Truthy(v) == v # Absent /\ v # <<>>

\* ------------------------------------------------------------- rationals
\* Similarity scores are exact rationals [n, d] in lowest terms.
RECURSIVE GCD(_, _)
GCD(a, b) == IF b = 0 THEN a ELSE GCD(b, a % b)

Rat(n, d) == LET g == GCD(n, d) IN [n |-> n \div g, d |-> d \div g]
Zero == [n |-> 0, d |-> 1]
One == [n |-> 1, d |-> 1]
RatGE(a, b) == a.n * b.d >= b.n * a.d
RatGT(a, b) == a.n * b.d > b.n * a.d
RatLT(a, b) == a.n * b.d < b.n * a.d

\* ------------------------------------------------------------ similarity
SetMin(S) == CHOOSE x \in S : \A y \in S : x <= y

RECURSIVE SortedSeq(_)
SortedSeq(S) == IF S = {} THEN <<>>
                ELSE <<SetMin(S)>> \o SortedSeq(S \ {SetMin(S)})

\* Greedy Jaro matching: the pairs <<i, j>> with s1[i] = s2[j], j inside the
\* window around i and not used by an earlier i.
\* The positions of s2 that character i of s1 may still be matched with.
JaroCandidates(s1, s2, i, used, w) ==
    {j \in Max2(1, i - w)..Min2(Len(s2), i + w) : j \notin used /\ s2[j] = s1[i]}

RECURSIVE JaroPairs(_, _, _, _, _)
JaroPairs(s1, s2, i, used, w) ==
    IF i > Len(s1) THEN <<>>
    ELSE IF JaroCandidates(s1, s2, i, used, w) = {}
    THEN JaroPairs(s1, s2, i + 1, used, w)
    ELSE <<(<<i, SetMin(JaroCandidates(s1, s2, i, used, w))>>)>>
         \o JaroPairs(s1, s2, i + 1,
                      used \cup {SetMin(JaroCandidates(s1, s2, i, used, w))}, w)

RECURSIVE CommonPrefix(_, _)
CommonPrefix(s1, s2) ==
    IF s1 = <<>> \/ s2 = <<>> \/ Head(s1) # Head(s2) THEN 0
    ELSE 1 + CommonPrefix(Tail(s1), Tail(s2))

\* The Jaro score from the two lengths, the number m of matching characters
\* and the number t of transpositions.
jaro_score(l1, l2, m, t) ==
    IF m = 0 THEN Zero
    ELSE Rat(m * m * l2 + m * m * l1 + (m - t) * l1 * l2, 3 * l1 * l2 * m)

\* Half the number of matched characters that are out of order; js are the
\* matched positions of s2 in increasing order.
transpositions(s1, s2, pairs, js) ==
    Cardinality({k \in 1..Len(pairs) : s1[pairs[k][1]] # s2[js[k]]}) \div 2

jaro_of_pairs(s1, s2, pairs) ==
    jaro_score(Len(s1), Len(s2), Len(pairs),
               transpositions(s1, s2, pairs,
                              SortedSeq({pairs[k][2] : k \in 1..Len(pairs)})))

Jaro(s1, s2) ==
    IF s1 = <<>> \/ s2 = <<>> THEN Zero
    ELSE jaro_of_pairs(s1, s2,
             JaroPairs(s1, s2, 1, {},
                       Max2(0, (Max2(Len(s1), Len(s2)) \div 2) - 1)))

\* The Winkler boost: a common prefix of p characters raises a Jaro score j
\* above 0.7 by p * 0.1 * (1 - j).
winkler(j, p) ==
    IF RatGT(j, [n |-> 7, d |-> 10])
    THEN Rat(10 * j.n + p * (j.d - j.n), 10 * j.d)
    ELSE j

\* Levenshtein.jaro_winkler with the default prefix weight 0.1 and a prefix
\* of at most 4 characters.
jaro_winkler(s1, s2) == winkler(Jaro(s1, s2), Min2(4, CommonPrefix(s1, s2)))

\* Variant of normalize that compares the strings as they are (sensitivity
\* of C11).
unnormalized(str) == str

\* Lines 32-33: lower() then strip().
normalize(str) == StrStrip(StrLower(str))

\* Lines 36-40 on the normalized strings.
normalized_similarity(n1, n2) == IF n1 = n2 THEN One ELSE jaro_winkler(n1, n2)

calculate_similarity(str1, str2) ==
    IF ~Truthy(str1) \/ ~Truthy(str2) THEN Zero
    ELSE normalized_similarity(normalize(str1), normalize(str2))

\* ------------------------------------------------------------ graph store
\* A node: id (the store's handle), ent (carries the __Entity__ label), type
\* (its entity label) and the properties the linkage agent reads.
Node(id, ent, type, name, product, product_name) ==
    [id |-> id, ent |-> ent, type |-> type, name |-> name,
     product |-> product, product_name |-> product_name]

\* The status of the reply to a query.
Reply(failed) == IF failed THEN "error" ELSE "success"

\* One query sent through graphdb.send_query, with the status of its reply.
Op(op, arg, reply) == [op |-> op, arg |-> arg, reply |-> reply]

\* Rows of the tabular sources, as the nodes LOAD CSV ... MERGE produces for
\* a label: one node per row, identified by (label, key value).
CsvNodes(source_file, label) ==
    CASE source_file = "products.csv" ->
           {Node(<<label, "p1">>, FALSE, label, Absent, Absent, <<"a", "b">>)}
      [] source_file = "suppliers.csv" ->
           {Node(<<label, "s1">>, FALSE, label, <<"c", "d">>, Absent, Absent)}
      [] OTHER -> {}

\* Rows of a relationship source: the (from key, to key) pairs it joins.
CsvPairs(source_file) ==
    CASE source_file = "product_supplier_mapping.csv" -> {<<"p1", "s1">>}
      [] OTHER -> {}

\* ------------------------------------------------------ string operations
EndsWith(s, suffix) ==
    Len(s) >= Len(suffix) /\ SubSeq(s, Len(s) - Len(suffix) + 1, Len(s)) = suffix

\* Python's  sub in s.
Contains(sub, s) ==
    \E i \in 0..(Len(s) - Len(sub)) : SubSeq(s, i + 1, i + Len(sub)) = sub

\* str.replace(old, new) for a non-empty old: every occurrence, left to right.
RECURSIVE Replace(_, _, _)
Replace(s, old, new) ==
    IF Len(s) < Len(old) THEN s
    ELSE IF SubSeq(s, 1, Len(old)) = old
         THEN new \o Replace(SubSeq(s, Len(old) + 1, Len(s)), old, new)
         ELSE <<Head(s)>> \o Replace(Tail(s), old, new)

\* str.title(): a cased character is upper-cased when the character before
\* it is not cased and lower-cased otherwise.
IsCased(c) == c \in DOMAIN ToLower \/ c \in DOMAIN ToUpper

RECURSIVE TitleFrom(_, _)
TitleFrom(s, after_cased) ==
    IF s = <<>> THEN <<>>
    ELSE <<IF after_cased THEN Lower(Head(s)) ELSE Upper(Head(s))>>
            \o TitleFrom(Tail(s), IsCased(Head(s)))

StrTitle(s) == TitleFrom(s, FALSE)

\* str.split(sep) for a non-empty sep; cur is the part being collected.
RECURSIVE SplitFrom(_, _, _)
SplitFrom(s, sep, cur) ==
    IF Len(s) < Len(sep) THEN <<cur \o s>>
    ELSE IF SubSeq(s, 1, Len(sep)) = sep
         THEN <<cur>> \o SplitFrom(SubSeq(s, Len(sep) + 1, Len(s)), sep, <<>>)
         ELSE SplitFrom(Tail(s), sep, Append(cur, Head(s)))

Split(s, sep) == SplitFrom(s, sep, <<>>)

\* os.path.basename
Basename(path) == Split(path, <<"/">>)[Len(Split(path, <<"/">>))]

\* str(i) for a natural number.
Digits == <<"0", "1", "2", "3", "4", "5", "6", "7", "8", "9">>

RECURSIVE IntToStr(_)
IntToStr(n) ==
    IF n < 10 THEN <<Digits[n + 1]>>
    ELSE IntToStr(n \div 10) \o <<Digits[(n % 10) + 1]>>

\* An insertion-ordered dict: a sequence of [key, value] with distinct keys.
\* Assigning to a key that is there replaces its value where it stands.
DictKeys(d) == [i \in 1..Len(d) |-> d[i].key]

DictSet(d, key, value) ==
    IF \E i \in 1..Len(d) : d[i].key = key
    THEN [i \in 1..Len(d) |-> IF d[i].key = key
                              THEN [key |-> key, value |-> value] ELSE d[i]]
    ELSE Append(d, [key |-> key, value |-> value])

\* --------------------------------------------------------- tabular files
\* A tabular file: its path, whether it can be opened and decoded, its
\* header row (NoHeaders for a file without one) and its rows, each row
\* holding one value per header.
NoHeaders == <<Absent>>

CsvFile(path, readable, headers, rows) ==
    [path |-> path, readable |-> readable, headers |-> headers, rows |-> rows]

\* ------------------------------------- AutomatedSchemaAgent: file analysis
\* Lines 35-39: the rows the analysis looks at.
sample_rows(f) == SubSeq(f.rows, 1, Min2(Len(f.rows), SampleSize))

ColumnOf(headers, header) == CHOOSE i \in 1..Len(headers) : headers[i] = header

\* Line 60: the sampled values of a column.
SampledValues(f, header) ==
    [r \in 1..Len(sample_rows(f)) |-> sample_rows(f)[r][ColumnOf(f.headers, header)]]

\* Line 61
LikelyUnique(values) == Len(values) = Cardinality(SeqToSet(values))

\* Lines 65, 74-76: the file name says mapping table.
NamedAsMapping(filename) ==
    \/ Contains(<<"m", "a", "p", "p", "i", "n", "g">>, filename)
    \/ Contains(<<"r", "e", "l", "a", "t", "i", "o", "n", "s", "h", "i", "p">>, filename)
    \/ Contains(<<"_", "t", "o", "_">>, filename)

\* Variant of NamedAsId that does not know the bare name id (sensitivity of
\* C19).
NamedWithIdSuffix(header_lower) == EndsWith(header_lower, <<"_", "i", "d">>)

\* Line 58
NamedAsId(header_lower) == EndsWith(header_lower, <<"_", "i", "d">>) \/ header_lower = <<"i", "d">>

\* Lines 58-62
IsIdColumn(f, header) ==
    NamedAsId(StrLower(header)) /\ LikelyUnique(SampledValues(f, header))

\* Variant of IsForeignKey that takes the columns named *_id only
\* (sensitivity of C23).
IsForeignKeyBySuffix(f, filename, header) ==
    /\ EndsWith(StrLower(header), <<"_", "i", "d">>)
    /\ ~LikelyUnique(SampledValues(f, header))

\* Lines 58-70
IsForeignKey(f, filename, header) ==
    /\ NamedAsId(StrLower(header))
    /\ ~LikelyUnique(SampledValues(f, header))
    /\ NamedAsMapping(filename) \/ EndsWith(StrLower(header), <<"_", "i", "d">>)

\* Variant of IsRelationshipTable without the test of the key columns
\* (sensitivity of C24).
IsRelationshipTableByForeignKeys(filename, id_columns, foreign_keys) ==
    \/ NamedAsMapping(filename)
    \/ Len(foreign_keys) >= 2

\* Lines 74-79
IsRelationshipTable(filename, id_columns, foreign_keys) ==
    \/ NamedAsMapping(filename)
    \/ Len(foreign_keys) >= 2
    \/ /\ Len(id_columns) >= 2
       /\ ~\E i \in 1..Len(id_columns) : StrLower(id_columns[i]) = <<"i", "d">>

\* Variant of Singular that keeps the plural (sensitivity of C18).
KeepsPlural(entity_name) == entity_name

\* Lines 86-89: the plural ending is removed.
Singular(entity_name) ==
    IF EndsWith(entity_name, <<"i", "e", "s">>)
    THEN SubSeq(entity_name, 1, Len(entity_name) - 3) \o <<"y">>
    ELSE IF EndsWith(entity_name, <<"s">>)
         THEN SubSeq(entity_name, 1, Len(entity_name) - 1)
         ELSE entity_name

\* Lines 84-91
EntityName(filename) ==
    Singular(Replace(StrTitle(Replace(Replace(filename, <<".", "c", "s", "v">>, <<>>), <<"_">>, <<" ">>)), <<" ">>, <<>>))

\* Lines 100-108: the analysis of a file that could not be read.
ErrorAnalysis(f) ==
    [file |-> Basename(f.path), error |-> <<"e", "r", "r", "o", "r">>, headers |-> <<>>,
     id_columns |-> <<>>, foreign_keys |-> <<>>, properties |-> <<>>]

\* Lines 43-98 with the columns classified.
Analysis(f, filename, id_columns, foreign_keys) ==
    [file |-> Basename(f.path), headers |-> f.headers,
     id_columns |-> id_columns, foreign_keys |-> foreign_keys,
     properties |-> SelectSeq(f.headers, LAMBDA h : /\ h \notin SeqToSet(id_columns)
                                                    /\ h \notin SeqToSet(foreign_keys)),
     is_relationship_table |-> IsRelationshipTable(filename, id_columns, foreign_keys),
     entity_type |-> IF IsRelationshipTable(filename, id_columns, foreign_keys)
                     THEN Absent ELSE EntityName(filename)]

\* Lines 27-108.  Opening an unreadable file raises, and so does the loop
\* over the headers of a file that has none; both end in the except clause.
analyze_csv_structure(f) ==
    IF ~f.readable \/ f.headers = NoHeaders THEN ErrorAnalysis(f)
    ELSE Analysis(f, StrLower(Basename(f.path)),
                  SelectSeq(f.headers, LAMBDA h : IsIdColumn(f, h)),
                  SelectSeq(f.headers, LAMBDA h : IsForeignKey(f, StrLower(Basename(f.path)), h)))

\* --------------------------- AutomatedSchemaAgent: relationship inference
\* analysis[key] raises KeyError when the analysis has no such key.
HasKey(analysis, key) == key \in DOMAIN analysis

\* Lines 117-118 and 256: the analysis yields a node.
YieldsNode(analysis) ==
    /\ ~analysis.is_relationship_table
    /\ Truthy(analysis.entity_type)
    /\ analysis.id_columns # <<>>

\* Lines 115-119
RECURSIVE EntityIdMap(_)
EntityIdMap(file_analyses) ==
    IF file_analyses = <<>> THEN <<>>
    ELSE LET a == file_analyses[Len(file_analyses)]
             before == EntityIdMap(SubSeq(file_analyses, 1, Len(file_analyses) - 1))
         IN IF YieldsNode(a) THEN DictSet(before, a.entity_type, a.id_columns[1])
            ELSE before

Relationship(type, source_file, relationship_type, from_entity, from_column, to_entity, to_column, properties) ==
    [type |-> type, source_file |-> source_file,
     relationship_type |-> relationship_type,
     from_entity |-> from_entity, from_column |-> from_column,
     to_entity |-> to_entity, to_column |-> to_column,
     properties |-> properties]

\* Variant of FkBase that keeps the _id suffix (sensitivity of C16).
FkWhole(fk) == StrLower(fk)

\* Lines 163, 190
FkBase(fk) == Replace(StrLower(fk), <<"_", "i", "d">>, <<>>)

\* Lines 147-154
RelName(filename) ==
    LET rel_name == StrUpper(Replace(filename, <<".", "c", "s", "v">>, <<>>))
    IN IF Contains(<<"m", "a", "p", "p", "i", "n", "g">>, StrLower(rel_name)) THEN <<"M", "A", "P", "P", "E", "D", "_", "T", "O">>
       ELSE IF Contains(<<"_", "t", "o", "_">>, rel_name)
            THEN IF Len(Split(rel_name, <<"_", "T", "O", "_">>)) > 1
                 THEN Split(rel_name, <<"_", "T", "O", "_">>)[1] \o <<"_", "T", "O", "_">> \o Split(rel_name, <<"_", "T", "O", "_">>)[2]
                 ELSE <<"R", "E", "L", "A", "T", "E", "S", "_", "T", "O">>
            ELSE Replace(rel_name, <<"_">>, <<"_">>)

NoEntities ==
    [from_entity |-> Absent, from_column |-> Absent,
     to_entity |-> Absent, to_column |-> Absent]

\* Lines 162-172: foreign key i against entity j of the map; the break of
\* line 172 leaves the inner loop only.
RECURSIVE MatchForeignKeys(_, _, _, _, _)
MatchForeignKeys(foreign_keys, entity_id_map, i, j, m) ==
    IF i > Len(foreign_keys) THEN m
    ELSE IF j > Len(entity_id_map)
    THEN MatchForeignKeys(foreign_keys, entity_id_map, i + 1, 1, m)
    ELSE IF ~Contains(FkBase(foreign_keys[i]), StrLower(entity_id_map[j].key))
    THEN MatchForeignKeys(foreign_keys, entity_id_map, i, j + 1, m)
    ELSE IF ~Truthy(m.from_entity)
    THEN MatchForeignKeys(foreign_keys, entity_id_map, i, j + 1,
                          [m EXCEPT !.from_entity = entity_id_map[j].key,
                                    !.from_column = foreign_keys[i]])
    ELSE IF ~Truthy(m.to_entity)
    THEN MatchForeignKeys(foreign_keys, entity_id_map, i + 1, 1,
                          [m EXCEPT !.to_entity = entity_id_map[j].key,
                                    !.to_column = foreign_keys[i]])
    ELSE MatchForeignKeys(foreign_keys, entity_id_map, i, j + 1, m)

MatchedRelationship(analysis, m) ==
    IF Truthy(m.from_entity) /\ Truthy(m.to_entity)
    THEN <<Relationship("relationship", analysis.file, RelName(analysis.file),
                        m.from_entity, m.from_column, m.to_entity, m.to_column,
                        analysis.properties)>>
    ELSE <<>>

\* Lines 125-184: the relationships of a dedicated relationship file.
TableRelationships(analysis, entity_id_map) ==
    IF Len(analysis.foreign_keys \o analysis.id_columns) < 2 THEN <<>>
    ELSE IF Contains(<<"p", "a", "r", "t", "_", "s", "u", "p", "p", "l", "i", "e", "r", "_", "m", "a", "p", "p", "i", "n", "g">>, StrLower(analysis.file))
    THEN <<Relationship("relationship", analysis.file, <<"S", "U", "P", "P", "L", "I", "E", "S">>,
                        <<"S", "u", "p", "p", "l", "i", "e", "r">>, <<"s", "u", "p", "p", "l", "i", "e", "r", "_", "i", "d">>, <<"P", "a", "r", "t">>, <<"p", "a", "r", "t", "_", "i", "d">>, <<>>)>>
    ELSE MatchedRelationship(analysis,
             MatchForeignKeys(analysis.foreign_keys \o analysis.id_columns,
                              entity_id_map, 1, 1, NoEntities))

\* Lines 195-207
ReferenceType(fk_base, target_entity) ==
    IF Contains(<<"p", "a", "r", "e", "n", "t">>, fk_base) THEN <<"P", "A", "R", "E", "N", "T", "_", "O", "F">>
    ELSE IF Contains(<<"c", "h", "i", "l", "d">>, fk_base) THEN <<"C", "H", "I", "L", "D", "_", "O", "F">>
    ELSE IF Contains(<<"s", "u", "p", "p", "l", "i", "e", "r">>, fk_base) THEN <<"S", "U", "P", "P", "L", "I", "E", "D", "_", "B", "Y">>
    ELSE IF Contains(<<"p", "r", "o", "d", "u", "c", "t">>, fk_base) THEN <<"C", "O", "N", "T", "A", "I", "N", "S">>
    ELSE IF Contains(<<"a", "s", "s", "e", "m", "b", "l", "y">>, fk_base) THEN <<"I", "S", "_", "P", "A", "R", "T", "_", "O", "F">>
    ELSE <<"H", "A", "S", "_">> \o StrUpper(target_entity)

\* Lines 188-218: foreign key i of an entity file against entity j.
RECURSIVE ReferenceRelationships(_, _, _, _)
ReferenceRelationships(analysis, entity_id_map, i, j) ==
    IF i > Len(analysis.foreign_keys) THEN <<>>
    ELSE IF j > Len(entity_id_map)
    THEN ReferenceRelationships(analysis, entity_id_map, i + 1, 1)
    ELSE IF Contains(FkBase(analysis.foreign_keys[i]), StrLower(entity_id_map[j].key))
    THEN <<Relationship("reference", analysis.file,
                        ReferenceType(FkBase(analysis.foreign_keys[i]), entity_id_map[j].key),
                        analysis.entity_type, analysis.foreign_keys[i],
                        entity_id_map[j].key, entity_id_map[j].value, <<>>)>>
            \o ReferenceRelationships(analysis, entity_id_map, i, j + 1)
    ELSE ReferenceRelationships(analysis, entity_id_map, i, j + 1)

\* Lines 122-218 for the analyses from the k-th on.
RECURSIVE RelationshipsFrom(_, _, _)
RelationshipsFrom(file_analyses, entity_id_map, k) ==
    IF k > Len(file_analyses) THEN <<>>
    ELSE (IF file_analyses[k].is_relationship_table
          THEN TableRelationships(file_analyses[k], entity_id_map)
          ELSE ReferenceRelationships(file_analyses[k], entity_id_map, 1, 1))
            \o RelationshipsFrom(file_analyses, entity_id_map, k + 1)

\* Lines 110-220
infer_relationships(file_analyses) ==
    RelationshipsFrom(file_analyses, EntityIdMap(file_analyses), 1)

\* ------------------------------ AutomatedSchemaAgent: construction plan
FirstOf(s, n) == SubSeq(s, 1, Min2(Len(s), n))

\* Lines 258-264
NodeConstruction(analysis) ==
    [construction_type |-> "node", source_file |-> analysis.file,
     label |-> analysis.entity_type,
     unique_column_name |-> analysis.id_columns[1],
     properties |-> FirstOf(analysis.properties, 20)]

\* Lines 273-282
RelationshipConstruction(rel) ==
    [construction_type |-> "relationship", source_file |-> rel.source_file,
     relationship_type |-> rel.relationship_type,
     from_node_label |-> rel.from_entity, from_node_column |-> rel.from_column,
     to_node_label |-> rel.to_entity, to_node_column |-> rel.to_column,
     properties |-> FirstOf(rel.properties, 10)]

\* Variant of RelKey that gives every relationship the index suffix
\* (sensitivity of C22).
RelKeyIndexed(rel, i) == rel.relationship_type \o <<"_">> \o IntToStr(i)

\* Line 271: i counts from 0.
RelKey(rel, i) ==
    IF i > 0 THEN rel.relationship_type \o <<"_">> \o IntToStr(i)
    ELSE rel.relationship_type

\* Lines 255-264 for the first k analyses.
RECURSIVE NodeConstructions(_, _)
NodeConstructions(file_analyses, k) ==
    IF k = 0 THEN <<>>
    ELSE IF YieldsNode(file_analyses[k])
    THEN DictSet(NodeConstructions(file_analyses, k - 1),
                 file_analyses[k].entity_type, NodeConstruction(file_analyses[k]))
    ELSE NodeConstructions(file_analyses, k - 1)

\* Variant of AddRelationships that stores every relationship under its bare
\* type name (sensitivity of C17).
RECURSIVE AddRelationshipsUnindexed(_, _, _)
AddRelationshipsUnindexed(plan, relationships, k) ==
    IF k = 0 THEN plan
    ELSE DictSet(AddRelationshipsUnindexed(plan, relationships, k - 1),
                 relationships[k].relationship_type,
                 RelationshipConstruction(relationships[k]))

\* Lines 269-282 for the first k relationships.
RECURSIVE AddRelationships(_, _, _)
AddRelationships(plan, relationships, k) ==
    IF k = 0 THEN plan
    ELSE DictSet(AddRelationships(plan, relationships, k - 1),
                 RelKey(relationships[k], k - 1),
                 RelationshipConstruction(relationships[k]))

\* Lines 243-245
Analyses(files) == [i \in 1..Len(files) |-> analyze_csv_structure(files[i])]

PlanOf(file_analyses, relationships) ==
    AddRelationships(NodeConstructions(file_analyses, Len(file_analyses)),
                     relationships, Len(relationships))

\* Lines 254-287.  The test of line 256 reads analysis["is_relationship_table"],
\* which raises KeyError for the analysis of a file that could not be read.
BuildPlan(file_analyses) ==
    IF \E i \in 1..Len(file_analyses) : ~HasKey(file_analyses[i], "is_relationship_table")
    THEN [raised |-> TRUE, file_analyses |-> file_analyses,
          relationships |-> <<>>, construction_plan |-> <<>>]
    ELSE [raised |-> FALSE, file_analyses |-> file_analyses,
          relationships |-> infer_relationships(file_analyses),
          construction_plan |-> PlanOf(file_analyses, infer_relationships(file_analyses))]

\* Lines 222-287
generate_construction_plan(files) == BuildPlan(Analyses(files))

\* ------------------------------------ adk_schema_agent: analyze_csv_schema
\* Line 60: every value of the column occurs once.
IsUnique(f, header) ==
    LikelyUnique([r \in 1..Len(f.rows) |-> f.rows[r][ColumnOf(f.headers, header)]])

\* Lines 64-84
ColumnType(file_name, col) ==
    IF StrLower(col) = <<"i", "d">> \/ EndsWith(StrLower(col), <<"_", "i", "d">>)
    THEN IF \/ StrLower(col) = <<"i", "d">>
            \/ StrLower(col) = StrLower(Replace(file_name, <<".", "c", "s", "v">>, <<>>)) \o <<"_", "i", "d">>
         THEN "primary_key" ELSE "foreign_key"
    ELSE IF EndsWith(StrLower(col), <<"_", "k", "e", "y">>) \/ EndsWith(StrLower(col), <<"_", "c", "o", "d", "e">>)
         THEN "potential_key" ELSE "attribute"

\* Lines 66-68, 78-80
IsPrimaryKeyCandidate(f, col) ==
    \/ ColumnType(Basename(f.path), col) = "primary_key"
    \/ ColumnType(Basename(f.path), col) = "potential_key" /\ IsUnique(f, col)

\* Lines 86-96: a table of relationships, or the entity the file is named for.
SchemaEntityType(file_name, foreign_key_candidates, column_count) ==
    IF Len(foreign_key_candidates) >= 2 /\ column_count <= 4
    THEN <<"r", "e", "l", "a", "t", "i", "o", "n", "s", "h", "i", "p">>
    ELSE LET entity_name == Replace(StrTitle(Replace(Replace(file_name, <<".", "c", "s", "v">>, <<>>), <<"_">>, <<" ">>)), <<" ">>, <<>>)
         IN  IF EndsWith(entity_name, <<"s">>) /\ ~EndsWith(entity_name, <<"s", "s">>)
             THEN SubSeq(entity_name, 1, Len(entity_name) - 1)
             ELSE entity_name

\* Lines 28-102.  read_csv raises for a file it cannot read or that is empty.
analyze_csv_schema(f) ==
    IF ~f.readable \/ f.headers = NoHeaders
    THEN [status |-> "error"]
    ELSE [status |-> "success",
          file_name |-> Basename(f.path),
          columns |-> [i \in 1..Len(f.headers) |->
                          [name |-> f.headers[i],
                           is_unique |-> IsUnique(f, f.headers[i]),
                           column_type |-> ColumnType(Basename(f.path), f.headers[i])]],
          primary_key_candidates |->
              SelectSeq(f.headers, LAMBDA c : IsPrimaryKeyCandidate(f, c)),
          foreign_key_candidates |->
              SelectSeq(f.headers, LAMBDA c : ColumnType(Basename(f.path), c) = "foreign_key"),
          is_relationship_table |->
              /\ Len(SelectSeq(f.headers, LAMBDA c : ColumnType(Basename(f.path), c) = "foreign_key")) >= 2
              /\ Len(f.headers) <= 4,
          entity_type |->
              SchemaEntityType(Basename(f.path),
                               SelectSeq(f.headers, LAMBDA c : ColumnType(Basename(f.path), c) = "foreign_key"),
                               Len(f.headers))]

\* Lines 121-134: the first candidate, else the first unique column, else
\* the first column, else the name id.
PrimaryKey(schema_analysis) ==
    IF schema_analysis.primary_key_candidates # <<>>
    THEN schema_analysis.primary_key_candidates[1]
    ELSE IF \E i \in 1..Len(schema_analysis.columns) : schema_analysis.columns[i].is_unique
         THEN schema_analysis.columns[CHOOSE i \in 1..Len(schema_analysis.columns) :
                                         /\ schema_analysis.columns[i].is_unique
                                         /\ \A j \in 1..(i - 1) : ~schema_analysis.columns[j].is_unique].name
         ELSE IF schema_analysis.columns # <<>>
              THEN schema_analysis.columns[1].name
              ELSE <<"i", "d">>

\* Lines 104-157: the plan holds one entry, named for the entity type.
generate_node_plan(schema_analysis) ==
    [key |-> schema_analysis.entity_type,
     construction_type |-> "node",
     source_file |-> schema_analysis.file_name,
     label |-> schema_analysis.entity_type,
     unique_column_name |-> PrimaryKey(schema_analysis),
     properties |-> LET names == [i \in 1..Len(schema_analysis.columns) |-> schema_analysis.columns[i].name]
                    IN  SelectSeq(names, LAMBDA c :
                            /\ c # PrimaryKey(schema_analysis)
                            /\ \E i \in 1..Len(schema_analysis.columns) :
                                   /\ schema_analysis.columns[i].name = c
                                   /\ schema_analysis.columns[i].column_type = "attribute")]

\* ------------------------------------------------- the data directory
\* Rows over the values 1 and 2.  The rows of a file of one column, all
\* different.
OneColumnRows == {<<<<"1">>, <<"2">>>>}

\* Two rows of two columns: no value repeats, the first column repeats, the
\* second column repeats, both repeat.
AllDiffer == <<<<"1", "1">>, <<"2", "2">>>>

FirstRepeats == <<<<"1", "1">>, <<"1", "2">>>>

SecondRepeats == <<<<"1", "1">>, <<"2", "1">>>>

BothRepeat == <<<<"1", "1">>, <<"1", "1">>>>

\* Row sets in which the first column is a key, and row sets in which it
\* repeats.
KeyedRows == {AllDiffer, FirstRepeats}

ProductsFile(rows) ==
    CsvFile(<<"d", "/", "p", "r", "o", "d", "u", "c", "t", "s", ".", "c", "s", "v">>, TRUE, <<<<"p", "r", "o", "d", "u", "c", "t", "_", "i", "d">>, <<"p", "r", "o", "d", "u", "c", "t", "_", "n", "a", "m", "e">>>>, rows)

SuppliersFile(rows) ==
    CsvFile(<<"d", "/", "s", "u", "p", "p", "l", "i", "e", "r", "s", ".", "c", "s", "v">>, TRUE, <<<<"s", "u", "p", "p", "l", "i", "e", "r", "_", "i", "d">>, <<"n", "a", "m", "e">>>>, rows)

MappingFile(rows) ==
    CsvFile(<<"d", "/", "p", "r", "o", "d", "u", "c", "t", "_", "s", "u", "p", "p", "l", "i", "e", "r", "_", "m", "a", "p", "p", "i", "n", "g", ".", "c", "s", "v">>, TRUE, <<<<"p", "r", "o", "d", "u", "c", "t", "_", "i", "d">>, <<"s", "u", "p", "p", "l", "i", "e", "r", "_", "i", "d">>>>, rows)

OrdersFile(rows) ==
    CsvFile(<<"d", "/", "o", "r", "d", "e", "r", "s", ".", "c", "s", "v">>, TRUE, <<<<"i", "d">>, <<"p", "r", "o", "d", "u", "c", "t", "_", "i", "d">>>>, rows)

ItemsFile(rows) ==
    CsvFile(<<"d", "/", "i", "t", "e", "m", "s", ".", "c", "s", "v">>, TRUE, <<<<"p", "r", "o", "d", "u", "c", "t", "_", "i", "d">>, <<"q", "t", "y">>>>, rows)

ProductFile(rows) ==
    CsvFile(<<"d", "/", "p", "r", "o", "d", "u", "c", "t", ".", "c", "s", "v">>, TRUE, <<<<"p", "r", "o", "d", "u", "c", "t", "_", "i", "d">>>>, rows)

IdMappingFile(rows) ==
    CsvFile(<<"d", "/", "i", "d", "_", "m", "a", "p", "p", "i", "n", "g", ".", "c", "s", "v">>, TRUE, <<<<"i", "d">>, <<"p", "r", "o", "d", "u", "c", "t", "_", "i", "d">>>>, rows)

ProductTypesFile(rows) ==
    CsvFile(<<"d", "/", "p", "r", "o", "d", "u", "c", "t", "_", "t", "y", "p", "e", "s", ".", "c", "s", "v">>, TRUE, <<<<"p", "r", "o", "d", "u", "c", "t", "_", "t", "y", "p", "e", "_", "i", "d">>, <<"n", "a", "m", "e">>>>, rows)

LinksFile(rows) ==
    CsvFile(<<"d", "/", "l", "i", "n", "k", "s", ".", "c", "s", "v">>, TRUE, <<<<"o", "r", "d", "e", "r", "_", "i", "d">>, <<"p", "r", "o", "d", "u", "c", "t", "_", "i", "d">>>>, rows)

\* Row sets in which no column repeats a value, and in which both do.
UniqueOrRepeatedRows == {AllDiffer, BothRepeat}

\* A file of five columns, two of them repeating keys of other files.
ShipmentsFile ==
    CsvFile(<<"d", "/", "s", "h", "i", "p", "m", "e", "n", "t", "s", ".", "c", "s", "v">>, TRUE, <<<<"o", "r", "d", "e", "r", "_", "i", "d">>, <<"p", "r", "o", "d", "u", "c", "t", "_", "i", "d">>, <<"q", "t", "y">>, <<"n", "o", "t", "e">>, <<"d", "a", "y">>>>, <<<<"1", "1", "1", "1", "1">>, <<"1", "1", "2", "2", "2">>>>)

UnreadableFile == CsvFile(<<"d", "/", "b", "r", "o", "k", "e", "n", ".", "c", "s", "v">>, FALSE, NoHeaders, <<>>)

EmptyFile == CsvFile(<<"d", "/", "e", "m", "p", "t", "y", ".", "c", "s", "v">>, TRUE, NoHeaders, <<>>)

CsvPool ==
    {ProductsFile(r) : r \in KeyedRows} \cup {SuppliersFile(AllDiffer)}
      \cup {MappingFile(r) : r \in {FirstRepeats, BothRepeat}}
      \cup {OrdersFile(r) : r \in {AllDiffer, SecondRepeats}}
      \cup {ItemsFile(FirstRepeats)} \cup {ProductFile(r) : r \in OneColumnRows}
      \cup {IdMappingFile(r) : r \in KeyedRows} \cup {UnreadableFile, EmptyFile}
      \cup {ProductTypesFile(AllDiffer)}
      \cup {LinksFile(r) : r \in UniqueOrRepeatedRows} \cup {ShipmentsFile}

\* The file lists handed to the schema agent: up to MaxFiles files of the
\* pool with different paths, in any order.
CsvFileLists ==
    {fs \in UNION {[1..n -> CsvPool] : n \in 0..MaxFiles} :
        \A i, j \in 1..Len(fs) : i # j => fs[i].path # fs[j].path}

\* The data directory of the pipeline runs.
StandardFiles ==
    <<ProductsFile(<<<<"1", "1">>, <<"2", "2">>>>),
      SuppliersFile(<<<<"1", "1">>, <<"2", "2">>>>),
      MappingFile(<<<<"1", "1">>, <<"1", "2">>>>)>>

\* ------------------------------------------------- construction plan entries
NodeEntry(key, label, source_file) ==
    [key |-> key, construction_type |-> "node", source_file |-> source_file,
     label |-> label, from_node_label |-> "", to_node_label |-> ""]

RelEntry(key, relationship_type, source_file, from_label, to_label) ==
    [key |-> key, construction_type |-> "relationship",
     source_file |-> source_file, label |-> relationship_type,
     from_node_label |-> from_label, to_node_label |-> to_label]

\* ------------------------------------------------------------ materializer
\* The state threaded through construct_domain_graph.
MatState(c, n, r, log, created_n, created_r, errs) ==
    [constraints |-> c, nodes |-> n, rels |-> r, oplog |-> log,
     nodes_created |-> created_n, relationships_created |-> created_r,
     errors |-> errs]

\* create_uniqueness_constraint: one CREATE CONSTRAINT query.
create_uniqueness_constraint(st, e, fails) ==
    [st EXCEPT !.oplog = Append(@, Op("create_constraint", e.key,
                                  Reply(<<"constraint", e.key>> \in fails))),
               !.constraints = IF <<"constraint", e.key>> \in fails THEN @
                               ELSE @ \cup {e.label}]

\* load_nodes_from_csv: one LOAD CSV ... MERGE query.
load_nodes_from_csv(st, e, fails) ==
    [st EXCEPT !.oplog = Append(@, Op("load_nodes", e.key,
                                  Reply(<<"load", e.key>> \in fails))),
               !.nodes = IF <<"load", e.key>> \in fails THEN @
                         ELSE @ \cup CsvNodes(e.source_file, e.label)]

\* import_nodes: the constraint first; the upsert only if that succeeded.
\* Returns the new state and the status of the returned result.
import_nodes(st, e, fails) ==
    IF <<"constraint", e.key>> \in fails
    THEN [st |-> create_uniqueness_constraint(st, e, fails), status |-> "error"]
    ELSE [st |-> load_nodes_from_csv(create_uniqueness_constraint(st, e, fails),
                                     e, fails),
          status |-> IF <<"load", e.key>> \in fails THEN "error" ELSE "success"]

\* import_relationships: one LOAD CSV ... MATCH ... MERGE query.
import_relationships(st, e, fails) ==
    LET new == {[type |-> e.label, from |-> <<e.from_node_label, pr[1]>>,
                 to |-> <<e.to_node_label, pr[2]>>] :
                  pr \in {q \in CsvPairs(e.source_file) :
                            /\ \E n \in st.nodes :
                                 n.id = <<e.from_node_label, q[1]>>
                            /\ \E n \in st.nodes :
                                 n.id = <<e.to_node_label, q[2]>>}}
    IN [st |-> [st EXCEPT !.oplog = Append(@, Op("load_rels", e.key,
                                  Reply(<<"load", e.key>> \in fails))),
                          !.rels = IF <<"load", e.key>> \in fails THEN @
                                   ELSE @ \cup new],
        status |-> IF <<"load", e.key>> \in fails THEN "error" ELSE "success"]

\* The two list comprehensions of construct_domain_graph.
node_constructions(p) ==
    FilterSeq(p, {e \in SeqToSet(p) : e.construction_type = "node"})

relationship_constructions(p) ==
    FilterSeq(p, {e \in SeqToSet(p) : e.construction_type = "relationship"})

\* Variant of construction_order that walks the plan as written (sensitivity
\* of C6).
plan_order(p) == p

\* The order in which construct_domain_graph walks the plan.
construction_order(p) == node_constructions(p) \o relationship_constructions(p)

\* What construct_domain_graph does with the result of one import.
collect_result(st, e, stat) ==
    IF stat = "error"
    THEN [st EXCEPT !.errors = Append(@, e.key)]
    ELSE IF e.construction_type = "node"
         THEN [st EXCEPT !.nodes_created = Append(@, e.key)]
         ELSE [st EXCEPT !.relationships_created = Append(@, e.key)]

import_entry(st, e, fails) ==
    IF e.construction_type = "node" THEN import_nodes(st, e, fails)
    ELSE import_relationships(st, e, fails)

\* Variant of import_all that stops at the first failed entry (sensitivity
\* of C7).
RECURSIVE import_all_abort(_, _, _)
abort_step(r, todo, fails) ==
    IF r.status = "error" THEN collect_result(r.st, Head(todo), "error")
    ELSE import_all_abort(collect_result(r.st, Head(todo), r.status),
                          Tail(todo), fails)

import_all_abort(st, todo, fails) ==
    IF todo = <<>> THEN st
    ELSE abort_step(import_entry(st, Head(todo), fails), todo, fails)

\* The two for loops of construct_domain_graph over the entries still to do.
RECURSIVE import_all(_, _, _)
import_all(st, todo, fails) ==
    IF todo = <<>> THEN st
    ELSE LET r == import_entry(st, Head(todo), fails)
         IN import_all(collect_result(r.st, Head(todo), r.status),
                       Tail(todo), fails)

\* get_graph_statistics: two read queries.
get_graph_statistics(st) ==
    [st EXCEPT !.oplog = @ \o <<Op("node_stats", "", "success"),
                             Op("rel_stats", "", "success")>>]

construct_domain_graph(p, c, n, r, fails) ==
    get_graph_statistics(
        import_all(MatState(c, n, r, <<>>, <<>>, <<>>, <<>>),
                   construction_order(p), fails))

\* The store failures the environment may inject into one materializer call:
\* at most MaxFail failing queries, each a constraint or a load of one entry.
MatFailures(p, budget) ==
    {F \in SUBSET (({"load"} \X {e.key : e \in SeqToSet(p)})
                    \cup ({"constraint"} \X {e.key : e \in SeqToSet(node_constructions(p))})) :
        Cardinality(F) <= budget}

\* ---------------------------------------------------------------- linkage
\* A property value that is not a string (a number): str.lower() raises.
NonString == <<"<number>">>

NoNode == Node(<<"", "">>, FALSE, "", Absent, Absent, Absent)

\* dict lookup n[field]; Absent when the key is missing.
Field(n, field) ==
    CASE field = "name" -> n.name
      [] field = "product" -> n.product
      [] field = "product_name" -> n.product_name
      [] OTHER -> Absent

\* get_entities_by_type: the rows the two queries match.
get_entities_by_type(ns, entity_type, graph) ==
    IF graph = "subject"
    THEN {n \in ns : n.ent /\ n.type = entity_type}
    ELSE {n \in ns : ~n.ent /\ n.type = entity_type
                       /\ n.type \notin {"Chunk", "Document"}}

\* The query result as a list: the rows in the order the store returns them.
RowsInOrder(rows, ord) == FilterSeq(ord, rows)

\* Lines 80-84 of find_best_match: 'name' first, then match_field.
subject_value(subject_entity, match_field) ==
    IF subject_entity.name # Absent THEN subject_entity.name
    ELSE Field(subject_entity, match_field)

\* Lines 91-99 of find_best_match: match_field, <match_field>_name, name.
domain_value(domain_entity, match_field) ==
    IF Field(domain_entity, match_field) # Absent
    THEN Field(domain_entity, match_field)
    ELSE IF match_field = "product" /\ domain_entity.product_name # Absent
    THEN domain_entity.product_name
    ELSE domain_entity.name

\* calculate_similarity raises (AttributeError) on a non-string operand once
\* both operands passed the emptiness test.
SimilarityRaises(v1, v2) ==
    Truthy(v1) /\ Truthy(v2) /\ (v1 = NonString \/ v2 = NonString)

\* Variant of IsBetter with >= in place of > (sensitivity of C10).
IsAtLeast(score, best_score) == RatGE(score, best_score)

\* The comparison that replaces the best candidate so far (line 103).
IsBetter(score, best_score) == RatGT(score, best_score)

\* The result of find_best_match: the best candidate and its score; raised
\* tells that calculate_similarity raised on the way.
NoMatch == [match |-> NoNode, score |-> Zero, raised |-> FALSE]

\* Variant of better_of that keeps the candidate visited last (sensitivity of
\* C8).
latest_of(best, domain_entity, score) ==
    [match |-> domain_entity, score |-> score, raised |-> FALSE]

\* Lines 103-105: the candidate replaces the best one on a strictly higher
\* score.
better_of(best, domain_entity, score) ==
    IF IsBetter(score, best.score)
    THEN [match |-> domain_entity, score |-> score, raised |-> FALSE]
    ELSE best

\* Lines 101-105: a candidate without a match value is passed over.
best_step(best, domain_entity, sv, dv) ==
    IF ~Truthy(dv) THEN best
    ELSE IF SimilarityRaises(sv, dv) THEN [best EXCEPT !.raised = TRUE]
    ELSE better_of(best, domain_entity, calculate_similarity(sv, dv))

\* The for loop of find_best_match over the candidates still to visit.
RECURSIVE best_match_loop(_, _, _, _)
best_match_loop(sv, todo, match_field, best) ==
    IF todo = <<>> \/ best.raised THEN best
    ELSE best_match_loop(sv, Tail(todo), match_field,
             best_step(best, Head(todo), sv,
                       domain_value(Head(todo), match_field)))

\* Lines 86-107: no subject value, no match.
match_from(sv, domain_entities, match_field) ==
    IF ~Truthy(sv) THEN NoMatch
    ELSE best_match_loop(sv, domain_entities, match_field, NoMatch)

find_best_match(subject_entity, domain_entities, match_field) ==
    match_from(subject_value(subject_entity, match_field), domain_entities,
               match_field)

\* create_correspondence: MERGE keeps one edge per (subject, domain) pair and
\* SET overwrites its similarity.
create_correspondence(es, subject_id, domain_id, score) ==
    {e \in es : ~(e.s = subject_id /\ e.d = domain_id)}
        \cup {[s |-> subject_id, d |-> domain_id, sim |-> score]}

\* Variant of Adopts without the threshold (sensitivity of C9).
AdoptsAnyMatch(best, threshold) == best.match # NoNode

\* The test of line 171.
Adopts(best, threshold) == best.match # NoNode /\ RatGE(best.score, threshold)

MatchField(entity_type) == IF entity_type = "Product" THEN "product" ELSE "name"

\* The state threaded through resolve_entities_for_type / resolve_all_entities.
LinkState(es, log, resolved, unresolved, errs, out) ==
    [edges |-> es, oplog |-> log, resolved |-> resolved,
     unresolved |-> unresolved, errors |-> errs, outcome |-> out]

\* Variant of record_outcome that keeps the subjects with an error out of the
\* unresolved count (sensitivity of C13).
record_outcome_apart(st, sid, best, threshold, fails) ==
    IF best.raised
    THEN [st EXCEPT !.errors = Append(@, sid),
                    !.outcome = @ \cup {<<sid, "raised">>}]
    ELSE IF Adopts(best, threshold)
    THEN IF <<"write", sid>> \in fails
         THEN [st EXCEPT !.oplog = Append(@, Op("merge_edge", sid, "error")),
                         !.errors = Append(@, sid),
                         !.outcome = @ \cup {<<sid, "write_failed">>}]
         ELSE [st EXCEPT !.oplog = Append(@, Op("merge_edge", sid, "success")),
                         !.edges = create_correspondence(@, sid, best.match.id,
                                                         best.score),
                         !.resolved = @ + 1,
                         !.outcome = @ \cup {<<sid, "resolved">>}]
    ELSE [st EXCEPT !.unresolved = @ + 1,
                    !.outcome = @ \cup {<<sid, "unresolved">>}]

\* Lines 171-189: what the loop does with the best match of one subject.
record_outcome(st, sid, best, threshold, fails) ==
    IF best.raised
    THEN [st EXCEPT !.unresolved = @ + 1,
                    !.errors = Append(@, sid),
                    !.outcome = @ \cup {<<sid, "raised">>}]
    ELSE IF Adopts(best, threshold)
    THEN IF <<"write", sid>> \in fails
         THEN [st EXCEPT !.oplog = Append(@, Op("merge_edge", sid, "error")),
                         !.unresolved = @ + 1,
                         !.errors = Append(@, sid),
                         !.outcome = @ \cup {<<sid, "write_failed">>}]
         ELSE [st EXCEPT !.oplog = Append(@, Op("merge_edge", sid, "success")),
                         !.edges = create_correspondence(@, sid, best.match.id,
                                                         best.score),
                         !.resolved = @ + 1,
                         !.outcome = @ \cup {<<sid, "resolved">>}]
    ELSE [st EXCEPT !.unresolved = @ + 1,
                    !.outcome = @ \cup {<<sid, "unresolved">>}]

\* The body of the for loop of resolve_entities_for_type for one subject.
resolve_one(st, subject_entity, domain_entities, match_field, threshold, fails) ==
    record_outcome(st, subject_entity.id,
                   find_best_match(subject_entity, domain_entities, match_field),
                   threshold, fails)

RECURSIVE resolve_loop(_, _, _, _, _, _)
resolve_loop(st, todo, domain_entities, match_field, threshold, fails) ==
    IF todo = <<>> THEN st
    ELSE resolve_loop(resolve_one(st, Head(todo), domain_entities,
                                  match_field, threshold, fails),
                      Tail(todo), domain_entities, match_field, threshold, fails)

\* One population query of resolve_entities_for_type: the rows in the order
\* ord in which the store returns them; a failed query yields the empty list
\* (line 66).
fetch_entities(ns, entity_type, graph, ord, fails) ==
    IF <<"query", <<entity_type, graph>>>> \in fails THEN <<>>
    ELSE RowsInOrder(get_entities_by_type(ns, entity_type, graph), ord)

\* The two population queries as sent to the store.
population_queries(entity_type, fails) ==
    <<Op("get_subject", entity_type,
         Reply(<<"query", <<entity_type, "subject">>>> \in fails)),
      Op("get_domain", entity_type,
         Reply(<<"query", <<entity_type, "domain">>>> \in fails))>>

\* Variant of resolve_populations that does not count the subjects when the
\* domain population is empty (sensitivity of C28).
resolve_populations_uncounted(subject_entities, domain_entities, st0, entity_type, threshold, fails) ==
    IF subject_entities = <<>> \/ domain_entities = <<>> THEN st0
    ELSE resolve_loop(st0, subject_entities, domain_entities,
                      MatchField(entity_type), threshold, fails)

\* Lines 149-193 of resolve_entities_for_type, the populations fetched.
resolve_populations(subject_entities, domain_entities, st0, entity_type, threshold, fails) ==
    IF subject_entities = <<>> THEN st0
    ELSE IF domain_entities = <<>>
    THEN [st0 EXCEPT !.unresolved = Len(subject_entities),
                     !.outcome = {<<subject_entities[i].id, "unresolved">> :
                                     i \in 1..Len(subject_entities)}]
    ELSE resolve_loop(st0, subject_entities, domain_entities,
                      MatchField(entity_type), threshold, fails)

\* resolve_entities_for_type on store content ns/es; ord is the order in
\* which the store returns rows, fails the queries that return an error.
resolve_entities_for_type(ns, es, entity_type, threshold, ord, fails) ==
    resolve_populations(
        fetch_entities(ns, entity_type, "subject", ord, fails),
        fetch_entities(ns, entity_type, "domain", ord, fails),
        LinkState(es, population_queries(entity_type, fails), 0, 0, <<>>, {}),
        entity_type, threshold, fails)

\* The entity types resolve_all_entities falls back to (line 206) and that
\* phase6_resolve_entities passes (line 257).
DefaultEntityTypes == <<"Product", "Supplier", "Part", "Assembly">>

\* The state threaded through resolve_all_entities.
AllState(es, log, total, res, unres, errs, out) ==
    [edges |-> es, oplog |-> log, total_relationships |-> total,
     entities_resolved |-> res, entities_unresolved |-> unres,
     errors |-> errs, outcome |-> out]

\* Lines 218-221: the result of one type is added to the overall result.
add_type_results(st, entity_type, t) ==
    AllState(t.edges, st.oplog \o t.oplog,
             st.total_relationships + t.resolved,
             st.entities_resolved \cup {<<entity_type, t.resolved>>},
             st.entities_unresolved \cup {<<entity_type, t.unresolved>>},
             st.errors \o t.errors,
             st.outcome \cup t.outcome)

\* The for loop of resolve_all_entities over the types still to resolve.
RECURSIVE resolve_all_loop(_, _, _, _, _, _)
resolve_all_loop(st, ns, todo, threshold, ord, fails) ==
    IF todo = <<>> THEN st
    ELSE resolve_all_loop(
            add_type_results(st, Head(todo),
                resolve_entities_for_type(ns, st.edges, Head(todo), threshold,
                                          ord, fails)),
            ns, Tail(todo), threshold, ord, fails)

resolve_all_entities(ns, es, entity_types, threshold, ord, fails) ==
    resolve_all_loop(AllState(es, <<>>, 0, {}, {}, <<>>, {}),
                     ns, entity_types, threshold, ord, fails)

\* Variant of remove_existing_correspondences that deletes one relationship
\* only (sensitivity of C12).
remove_one_correspondence(es, fails) ==
    IF es = {} THEN es ELSE es \ {CHOOSE e \in es : TRUE}

\* remove_existing_correspondences: one query deleting every CORRESPONDS_TO
\* relationship; a failed query deletes nothing.
remove_existing_correspondences(es, fails) ==
    IF <<"query", <<"remove", "all">>>> \in fails THEN es ELSE {}

\* phase6_resolve_entities: the removal, whose result is not looked at, then
\* resolve_all_entities over the fixed type list.
phase6_resolve_entities(ns, es, threshold, ord, fails) ==
    LET r == resolve_all_entities(ns, remove_existing_correspondences(es, fails),
                                  DefaultEntityTypes, threshold, ord, fails)
    IN [r EXCEPT !.oplog = <<Op("remove_edges", "",
                                Reply(<<"query", <<"remove", "all">>>> \in fails))>> \o @]

\* One order of the nodes ns.
RECURSIVE AnyOrder(_)
AnyOrder(ns) ==
    IF ns = {} THEN <<>>
    ELSE LET n == CHOOSE x \in ns : TRUE IN <<n>> \o AnyOrder(ns \ {n})

\* All orders in which the store may return the nodes ns.
RECURSIVE Orders(_)
Orders(ns) ==
    IF ns = {} THEN {<<>>}
    ELSE UNION {{<<n>> \o o : o \in Orders(ns \ {n})} : n \in ns}

\* The orders in which the store may return rows: every order of the domain
\* candidates (it decides ties) followed by the subject entities, whose order
\* only permutes the entries of the error list.
StoreOrders(ns) ==
    {d \o AnyOrder({n \in ns : n.ent}) : d \in Orders({n \in ns : ~n.ent})}

\* The candidates of one type compete only with each other: the orders of
\* the Product candidates, the other rows in one fixed order.
ProductOrders(ns) ==
    {d \o AnyOrder({n \in ns : n.ent \/ n.type # "Product"}) :
        d \in Orders({n \in ns : ~n.ent /\ n.type = "Product"})}

\* The store failures the environment may inject into one linkage call.
LinkFailureUniverse(ns) ==
    ({"write"} \X {n.id : n \in {m \in ns : m.ent}})
        \cup ({"query"} \X ({"Product", "Supplier"} \X {"subject", "domain"}))
        \cup {<<"query", <<"remove", "all">>>>}

LinkFailures(ns, budget) ==
    {F \in SUBSET LinkFailureUniverse(ns) : Cardinality(F) <= budget}

\* ------------------------------------------------------------------ reset
\* The queries of a reset that the environment may fail.
ResetFailureUniverse ==
    {"show_constraints", "drop_constraint", "show_indexes", "drop_index",
     "clear_data"}

ResetFailures(budget) ==
    {F \in SUBSET ResetFailureUniverse : Cardinality(F) <= budget}

\* The definitions a drop loop leaves behind: none when every DROP succeeds;
\* when a DROP fails the loop returns at once, leaving the failed one and
\* whatever the store listed after it.
Survivors(defs, failing) ==
    IF failing /\ defs # {} THEN {S \in SUBSET defs : S # {}} ELSE {{}}

\* drop_neo4j_indexes.  The test `list_constraints == "error"` compares a
\* dict with a string and is never true, so a failed SHOW query reaches the
\* subscript ["query_result"] of an error result, which raises KeyError.
drop_neo4j_indexes(c, i, F, survC, survI) ==
    IF "show_constraints" \in F
    THEN [raised |-> TRUE, status |-> "error", constraints |-> c, indexes |-> i,
          oplog |-> <<Op("show_constraints", "", "error")>>]
    ELSE IF survC # {}
    THEN [raised |-> FALSE, status |-> "error", constraints |-> survC,
          indexes |-> i,
          oplog |-> <<Op("show_constraints", "", "success"),
                      Op("drop_constraint", "", "error")>>]
    ELSE IF "show_indexes" \in F
    THEN [raised |-> TRUE, status |-> "error", constraints |-> {}, indexes |-> i,
          oplog |-> <<Op("show_constraints", "", "success")>>
                    \o (IF c = {} THEN <<>>
                        ELSE <<Op("drop_constraint", "", "success")>>)
                    \o <<Op("show_indexes", "", "error")>>]
    ELSE [raised |-> FALSE,
          status |-> IF survI # {} THEN "error" ELSE "success",
          constraints |-> {}, indexes |-> survI,
          oplog |-> <<Op("show_constraints", "", "success")>>
                    \o (IF c = {} THEN <<>>
                        ELSE <<Op("drop_constraint", "", "success")>>)
                    \o <<Op("show_indexes", "", "success")>>
                    \o (IF i = {} THEN <<>>
                        ELSE <<Op("drop_index", "", Reply(survI # {}))>>)]

\* clear_neo4j_data: one MATCH (n) ... DETACH DELETE n query.
clear_neo4j_data(n, r, e, F) ==
    IF "clear_data" \in F
    THEN [status |-> "error", nodes |-> n, rels |-> r, edges |-> e,
          oplog |-> <<Op("clear_data", "", "error")>>]
    ELSE [status |-> "success", nodes |-> {}, rels |-> {}, edges |-> {},
          oplog |-> <<Op("clear_data", "", "success")>>]

\* Variant of ResetConfirmed that takes every call as confirmed (sensitivity
\* of C5).
ConfirmedAnyway(confirm) == TRUE

\* The guard of reset_graph (line 96).
ResetConfirmed(confirm) == confirm

\* reset_graph(confirm).  Without confirmation it returns an error result and
\* sends nothing; with it, it drops the definitions, clears the data and
\* returns status success whatever the two steps reported.
reset_graph(confirm, c, i, n, r, e, F, survC, survI) ==
    LET d == drop_neo4j_indexes(c, i, F, survC, survI)
        cl == clear_neo4j_data(n, r, e, F)
    IN IF ~ResetConfirmed(confirm)
       THEN [raised |-> FALSE, status |-> "error", indexes_dropped |-> "",
             data_cleared |-> "", constraints |-> c, indexes |-> i,
             nodes |-> n, rels |-> r, edges |-> e, oplog |-> <<>>]
       ELSE IF d.raised
       THEN [raised |-> TRUE, status |-> "error", indexes_dropped |-> "",
             data_cleared |-> "", constraints |-> d.constraints,
             indexes |-> d.indexes, nodes |-> n, rels |-> r, edges |-> e,
             oplog |-> d.oplog]
       ELSE [raised |-> FALSE, status |-> "success",
             indexes_dropped |-> d.status, data_cleared |-> cl.status,
             constraints |-> d.constraints, indexes |-> d.indexes,
             nodes |-> cl.nodes, rels |-> cl.rels, edges |-> cl.edges,
             oplog |-> d.oplog \o cl.oplog]

\* --------------------------------------------------------------- pipeline
\* limit_text_files = None
NoLimit == -1
Limits == {NoLimit} \cup 0..MaxLimit

Phases == <<"goal", "files", "schema", "domain", "subject", "resolve", "complete">>
PlanningPhases == {"goal", "files", "schema"}

\* Persisted artifacts.  present = FALSE stands for a file that does not
\* exist; run is the invocation that generated the content, goal_run and
\* sel_run the goal and file selection it was generated from.
AbsentGoal == [present |-> FALSE, run |-> 0]
AbsentSelection == [present |-> FALSE, run |-> 0, goal_run |-> 0,
                    approved_text_files |-> <<>>]
AbsentConstruction == [present |-> FALSE, run |-> 0, goal_run |-> 0,
                       sel_run |-> 0, entries |-> <<>>]
AbsentExtraction == [present |-> FALSE, run |-> 0, goal_run |-> 0,
                     sel_run |-> 0, text_files |-> <<>>]

\* What the file selection can approve: the text files sorted by relevance,
\* each named by its rank.

TextSelections == {[i \in 1..n |-> i] : n \in 0..MaxText}

\* What generate_construction_plan produces from the tabular sources of the
\* data directory: node entries first, then relationship entries.
ProductEntry == NodeEntry("Product", "Product", "products.csv")
SupplierEntry == NodeEntry("Supplier", "Supplier", "suppliers.csv")
MappedToEntry == RelEntry("MAPPED_TO", "MAPPED_TO", "product_supplier_mapping.csv",
                          "Product", "Supplier")

GeneratedPlans == {<<ProductEntry, SupplierEntry, MappedToEntry>>}

\* Variant of ShouldLoad that overlooks the force flag (sensitivity of C2).
LoadsWhenPresent(force, present) == present

\* The test of the three load_or_* methods.
ShouldLoad(force, present) == ~force /\ present

\* Variant of PlansPresent that is content with one of the two files
\* (sensitivity of C29).
EitherPlanPresent(cf, ef) == cf.present \/ ef.present

\* Line 427 of schema_agent.py: both plan files must exist for the load.
PlansPresent(cf, ef) == cf.present /\ ef.present

\* Variant of ApplyLimit that never cuts the list (sensitivity of C20).
KeepsAll(selected, limit) == selected

\* Lines 390-391: the cap on the selected text files.
ApplyLimit(selected, limit) ==
    IF limit # NoLimit /\ limit # 0 /\ Len(selected) > limit
    THEN SubSeq(selected, 1, limit) ELSE selected

\* Variant of RunsSubjectPhase without the test of line 412 (sensitivity of
\* C1).
AlwaysRunsSubjectPhase(sel) == TRUE

\* Line 412: the subject-graph phase runs only for a non-empty list.
RunsSubjectPhase(sel) == sel # <<>>

NextPc(p) == CASE p = "reset" -> "goal" [] p = "goal" -> "files"
               [] p = "files" -> "schema" [] p = "schema" -> "domain"
               [] p = "domain" -> "subject" [] p = "subject" -> "resolve"
               [] p = "resolve" -> "complete" [] OTHER -> "returned"

\* Variant of AfterException in which the run goes on with the next phase
\* (sensitivity of C3).
ContinuesAfterException(p) == NextPc(p)

\* Lines 450-455: an exception leaves the try block; nothing after it runs.
AfterException(p) == "returned"

NoMode == [did |-> "none", present |-> FALSE]
InitMode == [p \in PlanningPhases |-> NoMode]

InitHist == [failed_at |-> "none", returned |-> <<>>, goal_file |-> AbsentGoal,
             selection_file |-> AbsentSelection,
             construction_file |-> AbsentConstruction,
             extraction_file |-> AbsentExtraction,
             edges_before |-> {}, ord |-> <<>>]

NoResults == [kind |-> "none"]

\* The threshold the builder's linkage agent is constructed with (0.6).
DefaultThreshold == [n |-> 3, d |-> 5]

\* Store contents a run can find: an empty store, or the graph left by an
\* earlier process (a domain node, a text-derived entity, its correspondence,
\* a constraint and an index).  The correspondence was written with a lower
\* threshold; in the third store its subject no longer resembles the product.
OldProduct == Node(<<"Product", "p1">>, FALSE, "Product", Absent, Absent, <<"a", "b">>)
OldEntity == Node(<<"__Entity__", "e1">>, TRUE, "Product", <<"a", "b", "c">>, Absent, Absent)
OldEdge == [s |-> OldEntity.id, d |-> OldProduct.id, sim |-> [n |-> 1, d |-> 2]]

OldStranger == Node(<<"__Entity__", "e1">>, TRUE, "Product", <<"x", "y">>, Absent, Absent)

InitStores ==
    {[constraints |-> {}, indexes |-> {}, nodes |-> {}, edges |-> {}],
     [constraints |-> {"Product"}, indexes |-> {"idx"},
      nodes |-> {OldProduct, OldEntity}, edges |-> {OldEdge}],
     [constraints |-> {"Product"}, indexes |-> {"idx"},
      nodes |-> {OldProduct, OldStranger}, edges |-> {OldEdge}]}

\* Nothing has been called yet: no run, no persisted artifact, an agent
\* with the default threshold.
InitBuilder ==
    /\ pc = "idle" /\ runNo = 0
    /\ reset = FALSE /\ force_regenerate_plans = FALSE /\ limit_text_files = NoLimit
    /\ goal_file = AbsentGoal /\ selection_file = AbsentSelection
    /\ construction_file = AbsentConstruction /\ extraction_file = AbsentExtraction
    /\ goal = AbsentGoal /\ file_selection = AbsentSelection
    /\ selected_text = <<>>
    /\ construction_plan = AbsentConstruction /\ extraction_plan = AbsentExtraction
    /\ status = "none" /\ started = <<>> /\ returned = <<>>
    /\ mode = InitMode /\ hist = InitHist
    /\ oplog = <<>> /\ similarity_threshold = DefaultThreshold
    /\ results = NoResults /\ outcome = {} /\ faults = 0

InitIdle == InitBuilder /\ csv_files = StandardFiles

Init ==
    /\ InitIdle
    /\ \E st \in InitStores :
          /\ constraints = st.constraints /\ indexes = st.indexes
          /\ nodes = st.nodes /\ edges = st.edges
    /\ rels = {}

\* build_complete_graph is called: lines 340-352.
StartRun(r, f, l) ==
    /\ pc \in {"idle", "returned"} /\ runNo < MaxRuns
    /\ runNo' = runNo + 1
    /\ reset' = r /\ force_regenerate_plans' = f /\ limit_text_files' = l
    /\ pc' = "reset" /\ status' = "running"
    /\ started' = <<>> /\ returned' = <<>> /\ mode' = InitMode
    /\ hist' = [failed_at |-> IF status # "error" THEN "none"
                              ELSE IF started = <<>> THEN "reset"
                              ELSE started[Len(started)],
                returned |-> returned, goal_file |-> goal_file,
                selection_file |-> selection_file,
                construction_file |-> construction_file,
                extraction_file |-> extraction_file,
                edges_before |-> {}, ord |-> <<>>]
    /\ goal' = AbsentGoal /\ file_selection' = AbsentSelection
    /\ selected_text' = <<>>
    /\ construction_plan' = AbsentConstruction
    /\ extraction_plan' = AbsentExtraction
    /\ oplog' = <<>> /\ results' = NoResults /\ outcome' = {} /\ faults' = 0
    /\ UNCHANGED <<goal_file, selection_file, construction_file, extraction_file,
                   constraints, indexes, nodes, rels, edges,
                   similarity_threshold, csv_files>>

\* What the except clause does to the run (lines 450-455).
Raise(p) == /\ status' = "error"
            /\ pc' = AfterException(p)

\* The store as a reset left it.
StoreAfterReset(r) ==
    /\ constraints' = r.constraints /\ indexes' = r.indexes
    /\ nodes' = r.nodes /\ rels' = r.rels /\ edges' = r.edges

\* Lines 355-356: results['reset'] = self.reset_graph(confirm=True); the
\* result is stored and not looked at, an exception ends the run.
ResetOutcome(r) ==
    /\ StoreAfterReset(r)
    /\ oplog' = oplog \o r.oplog
    /\ results' = [kind |-> "reset", status |-> r.status,
                   indexes_dropped |-> r.indexes_dropped,
                   data_cleared |-> r.data_cleared]
    /\ IF r.raised THEN Raise("reset")
       ELSE pc' = NextPc("reset") /\ UNCHANGED status

\* Variant of ResetPhase in which the reset deletes the persisted plans as
\* well (sensitivity of C30).
ResetPhaseDeletesPlans ==
    /\ pc = "reset" /\ reset
    /\ \E F \in ResetFailures(MaxFail - faults) :
       \E survC \in Survivors(constraints, "drop_constraint" \in F) :
       \E survI \in Survivors(indexes, "drop_index" \in F) :
         /\ ResetOutcome(reset_graph(TRUE, constraints, indexes, nodes, rels,
                                     edges, F, survC, survI))
         /\ faults' = faults + Cardinality(F)
    /\ construction_file' = AbsentConstruction /\ extraction_file' = AbsentExtraction
    /\ UNCHANGED <<runNo, reset, csv_files, force_regenerate_plans,
                   limit_text_files, goal_file, selection_file,
                   goal, file_selection, selected_text, construction_plan,
                   extraction_plan, started, returned, mode, hist,
                   similarity_threshold, outcome>>

\* Lines 354-363: the reset, when requested, and the file discovery.
ResetPhase ==
    /\ pc = "reset" /\ reset
    /\ \E F \in ResetFailures(MaxFail - faults) :
       \E survC \in Survivors(constraints, "drop_constraint" \in F) :
       \E survI \in Survivors(indexes, "drop_index" \in F) :
         /\ ResetOutcome(reset_graph(TRUE, constraints, indexes, nodes, rels,
                                     edges, F, survC, survI))
         /\ faults' = faults + Cardinality(F)
    /\ UNCHANGED <<runNo, reset, csv_files, force_regenerate_plans,
          limit_text_files,
                   goal_file, selection_file, construction_file, extraction_file,
                   goal, file_selection, selected_text, construction_plan,
                   extraction_plan, started, returned, mode, hist,
                   similarity_threshold, outcome>>

SkipReset ==
    /\ pc = "reset" /\ ~reset
    /\ pc' = NextPc("reset")
    /\ UNCHANGED <<runNo, reset, csv_files, force_regenerate_plans,
          limit_text_files,
                   goal_file, selection_file, construction_file, extraction_file,
                   goal, file_selection, selected_text, construction_plan,
                   extraction_plan, status, started, returned, mode, hist,
                   constraints, indexes, nodes, rels, edges, oplog,
                   similarity_threshold, results, outcome, faults>>

\* Phase 1: phase1_determine_goal -> load_or_generate_goal.  The goal is
\* loaded when the test allows it; otherwise determine_goal runs and save_goal
\* persists its result, unless the component raises (ok = FALSE).
Phase1 ==
    /\ pc = "goal"
    /\ started' = Append(started, "goal")
    /\ IF ShouldLoad(force_regenerate_plans, goal_file.present)
       THEN /\ goal' = goal_file
            /\ mode' = [mode EXCEPT !["goal"] = [did |-> "loaded", present |-> goal_file.present]]
            /\ returned' = Append(returned, "goal")
            /\ pc' = NextPc("goal")
            /\ UNCHANGED <<goal_file, status, faults>>
       ELSE \E ok \in BOOLEAN :
              IF ok
              THEN /\ goal' = [present |-> TRUE, run |-> runNo]
                   /\ UNCHANGED faults
                   /\ goal_file' = goal'
                   /\ mode' = [mode EXCEPT !["goal"] = [did |-> "generated", present |-> goal_file.present]]
                   /\ returned' = Append(returned, "goal")
                   /\ pc' = NextPc("goal")
                   /\ UNCHANGED status
              ELSE /\ faults < MaxFail /\ faults' = faults + 1
                   /\ mode' = [mode EXCEPT !["goal"] = [did |-> "failed", present |-> goal_file.present]]
                   /\ Raise("goal")
                   /\ UNCHANGED <<goal, goal_file, returned>>
    /\ UNCHANGED <<runNo, reset, csv_files, force_regenerate_plans,
          limit_text_files,
                   selection_file, construction_file, extraction_file,
                   file_selection, selected_text, construction_plan,
                   extraction_plan, hist, constraints, indexes, nodes, rels,
                   edges, oplog, similarity_threshold, results, outcome>>

\* Phase 2: phase2_select_files -> load_or_select_files, then lines 385-392
\* (the selected files and the cap on the text files).
Phase2 ==
    /\ pc = "files"
    /\ started' = Append(started, "files")
    /\ IF ShouldLoad(force_regenerate_plans, selection_file.present)
       THEN /\ file_selection' = selection_file
            /\ selected_text' = ApplyLimit(selection_file.approved_text_files,
                                           limit_text_files)
            /\ mode' = [mode EXCEPT !["files"] = [did |-> "loaded", present |-> selection_file.present]]
            /\ returned' = Append(returned, "files")
            /\ pc' = NextPc("files")
            /\ UNCHANGED <<selection_file, status, faults>>
       ELSE \E ok \in BOOLEAN, texts \in TextSelections :
              IF ok
              THEN /\ file_selection' = [present |-> TRUE, run |-> runNo,
                                         goal_run |-> goal.run,
                                         approved_text_files |-> texts]
                   /\ selection_file' = file_selection'
                   /\ selected_text' = ApplyLimit(texts, limit_text_files)
                   /\ UNCHANGED faults
                   /\ mode' = [mode EXCEPT !["files"] = [did |-> "generated", present |-> selection_file.present]]
                   /\ returned' = Append(returned, "files")
                   /\ pc' = NextPc("files")
                   /\ UNCHANGED status
              ELSE /\ texts = <<>>
                   /\ faults < MaxFail /\ faults' = faults + 1
                   /\ mode' = [mode EXCEPT !["files"] = [did |-> "failed", present |-> selection_file.present]]
                   /\ Raise("files")
                   /\ UNCHANGED <<file_selection, selection_file, selected_text,
                                  returned>>
    /\ UNCHANGED <<runNo, reset, csv_files, force_regenerate_plans,
          limit_text_files,
                   goal_file, construction_file, extraction_file, goal,
                   construction_plan, extraction_plan, hist, constraints,
                   indexes, nodes, rels, edges, oplog, similarity_threshold,
                   results, outcome>>

\* Phase 3: phase3_generate_schema -> load_or_generate_plans.  Both plan files
\* must exist for the load.  Generation writes the construction plan file and
\* then the extraction plan file; how = "generate" raises before either write,
\* how = "between" raises after the first write.
Phase3 ==
    /\ pc = "schema"
    /\ started' = Append(started, "schema")
    /\ LET present == PlansPresent(construction_file, extraction_file)
       IN IF ShouldLoad(force_regenerate_plans, present)
          THEN /\ construction_plan' = construction_file
               /\ extraction_plan' = extraction_file
               /\ mode' = [mode EXCEPT !["schema"] = [did |-> "loaded", present |-> present]]
               /\ returned' = Append(returned, "schema")
               /\ pc' = NextPc("schema")
               /\ UNCHANGED <<construction_file, extraction_file, status, faults>>
          ELSE \E how \in {"ok", "generate", "between"}, entries \in GeneratedPlans :
                 LET cp == [present |-> TRUE, run |-> runNo, goal_run |-> goal.run,
                            sel_run |-> file_selection.run, entries |-> entries]
                     ep == [present |-> TRUE, run |-> runNo, goal_run |-> goal.run,
                            sel_run |-> file_selection.run,
                            text_files |-> selected_text]
                 IN CASE how = "ok" ->
                           /\ construction_plan' = cp /\ extraction_plan' = ep
                           /\ construction_file' = cp /\ extraction_file' = ep
                           /\ mode' = [mode EXCEPT !["schema"] = [did |-> "generated", present |-> present]]
                           /\ returned' = Append(returned, "schema")
                           /\ pc' = NextPc("schema")
                           /\ UNCHANGED <<status, faults>>
                      [] how = "generate" ->
                           /\ faults < MaxFail /\ faults' = faults + 1
                           /\ mode' = [mode EXCEPT !["schema"] = [did |-> "failed", present |-> present]]
                           /\ Raise("schema")
                           /\ UNCHANGED <<construction_plan, extraction_plan,
                                          construction_file, extraction_file,
                                          returned>>
                      [] how = "between" ->
                           /\ faults < MaxFail /\ faults' = faults + 1
                           /\ construction_file' = cp
                           /\ mode' = [mode EXCEPT !["schema"] = [did |-> "failed", present |-> present]]
                           /\ Raise("schema")
                           /\ UNCHANGED <<construction_plan, extraction_plan,
                                          extraction_file, returned>>
    /\ UNCHANGED <<runNo, reset, csv_files, force_regenerate_plans,
          limit_text_files,
                   goal_file, selection_file, goal, file_selection,
                   selected_text, hist, constraints, indexes, nodes, rels,
                   edges, oplog, similarity_threshold, results, outcome>>

\* ------------------------------------------------------ subject graph phase
\* What processing one text file can yield: an exception caught by
\* process_file ("failed"), or the entities the extraction returned (the
\* extraction results considered hold no relationships).
TextOutcomes == {"failed", "product_ab", "product_ac"}

\* The entity the extraction finds in a text file.
ExtractionOf(file_path) == IF file_path = 1 THEN "product_ab" ELSE "product_ac"

ExtractedName(o) == IF o = "product_ab" THEN <<"a", "b">> ELSE <<"a", "c">>

\* create_nodes_and_relationships for one extraction result.  A Product
\* entity is matched to an existing Product node by product_name, otherwise
\* merged as a new Product node; any other entity is merged under its type.
\* None of the queries sets the __Entity__ label.
create_nodes_and_relationships(ns, o) ==
    CASE o \in {"product_ab", "product_ac"} ->
           IF \E n \in ns : n.type = "Product" /\ n.product_name = ExtractedName(o)
           THEN ns
           ELSE ns \cup {Node(<<"Product", o>>, FALSE, "Product",
                              ExtractedName(o), Absent, ExtractedName(o))}
      [] OTHER -> ns

\* The for loop of construct_subject_graph over the files still to process.
RECURSIVE construct_subject_graph(_, _, _, _)
construct_subject_graph(st, file_paths, outs, k) ==
    IF k > Len(file_paths) THEN st
    ELSE construct_subject_graph(
            IF outs[k] = "failed"
            THEN [st EXCEPT !.files_failed = Append(@, file_paths[k])]
            ELSE [st EXCEPT !.files_processed = Append(@, file_paths[k]),
                            !.nodes = create_nodes_and_relationships(@, outs[k])],
            file_paths, outs, k + 1)

\* The store and the result document after construct_domain_graph.
DomainOutcome(r) ==
    /\ constraints' = r.constraints /\ nodes' = r.nodes /\ rels' = r.rels
    /\ oplog' = oplog \o r.oplog
    /\ results' = [kind |-> "domain", nodes_created |-> r.nodes_created,
                   relationships_created |-> r.relationships_created,
                   errors |-> r.errors]

\* phase4_build_domain_graph -> construct_domain_graph, with at most budget
\* store queries failing.
BuildDomainGraph(budget) ==
    /\ pc = "domain"
    /\ started' = Append(started, "domain")
    /\ \E F \in MatFailures(construction_plan.entries, budget) :
         /\ DomainOutcome(construct_domain_graph(construction_plan.entries,
                                                 constraints, nodes, rels, F))
         /\ faults' = faults + Cardinality(F)
    /\ returned' = Append(returned, "domain")
    /\ pc' = NextPc("domain")
    /\ UNCHANGED <<runNo, reset, csv_files, force_regenerate_plans,
          limit_text_files,
                   goal_file, selection_file, construction_file, extraction_file,
                   goal, file_selection, selected_text, construction_plan,
                   extraction_plan, status, mode, hist, indexes, edges,
                   similarity_threshold, outcome>>

\* Phase 4 inside a run.
Phase4 == BuildDomainGraph(MaxFail - faults)

\* The store and the result document after construct_subject_graph.
SubjectOutcome(r) ==
    /\ nodes' = r.nodes
    /\ results' = [kind |-> "subject", files_processed |-> r.files_processed,
                   files_failed |-> r.files_failed]

\* Phase 5: phase5_build_subject_graph -> construct_subject_graph, entered
\* only when the selected text-file list is not empty (line 412).
Phase5 ==
    /\ pc = "subject" /\ RunsSubjectPhase(selected_text)
    /\ started' = Append(started, "subject")
    /\ \E failed \in {S \in SUBSET (1..Len(selected_text)) :
                           Cardinality(S) <= MaxFail - faults} :
         /\ SubjectOutcome(construct_subject_graph(
                [nodes |-> nodes, files_processed |-> <<>>,
                 files_failed |-> <<>>],
                selected_text,
                [k \in 1..Len(selected_text) |->
                    IF k \in failed THEN "failed"
                    ELSE ExtractionOf(selected_text[k])],
                1))
         /\ faults' = faults + Cardinality(failed)
    /\ oplog' = Append(oplog, Op("subject_graph", "", "success"))
    /\ returned' = Append(returned, "subject")
    /\ pc' = NextPc("subject")
    /\ UNCHANGED <<runNo, reset, csv_files, force_regenerate_plans,
          limit_text_files,
                   goal_file, selection_file, construction_file, extraction_file,
                   goal, file_selection, selected_text, construction_plan,
                   extraction_plan, status, mode, hist, constraints, indexes,
                   rels, edges, similarity_threshold, outcome>>

SkipPhase5 ==
    /\ pc = "subject" /\ ~RunsSubjectPhase(selected_text)
    /\ pc' = NextPc("subject")
    /\ UNCHANGED <<runNo, reset, csv_files, force_regenerate_plans,
          limit_text_files,
                   goal_file, selection_file, construction_file, extraction_file,
                   goal, file_selection, selected_text, construction_plan,
                   extraction_plan, status, started, returned, mode, hist,
                   constraints, indexes, nodes, rels, edges, oplog,
                   similarity_threshold, results, outcome, faults>>

\* The store and the result document after a resolution run.
ResolutionOutcome(r) ==
    /\ edges' = r.edges
    /\ oplog' = oplog \o r.oplog
    /\ outcome' = r.outcome
    /\ results' = [kind |-> "resolution",
                   total_relationships |-> r.total_relationships,
                   entities_resolved |-> r.entities_resolved,
                   entities_unresolved |-> r.entities_unresolved,
                   errors |-> r.errors]

\* Phase 6: phase6_resolve_entities.
Phase6 ==
    /\ pc = "resolve"
    /\ started' = Append(started, "resolve")
    /\ \E ord \in StoreOrders(nodes), F \in LinkFailures(nodes, MaxFail - faults) :
         /\ ResolutionOutcome(phase6_resolve_entities(
                nodes, edges, similarity_threshold, ord, F))
         /\ faults' = faults + Cardinality(F)
    /\ returned' = Append(returned, "resolve")
    /\ pc' = NextPc("resolve")
    /\ UNCHANGED <<runNo, reset, csv_files, force_regenerate_plans,
          limit_text_files,
                   goal_file, selection_file, construction_file, extraction_file,
                   goal, file_selection, selected_text, construction_plan,
                   extraction_plan, status, mode, hist, constraints, indexes,
                   nodes, rels, similarity_threshold>>

\* Lines 421-448: the plans are saved, the statistics read, the run succeeds.
Complete ==
    /\ pc = "complete"
    /\ started' = Append(started, "complete")
    /\ returned' = Append(returned, "complete")
    /\ status' = "success"
    /\ pc' = NextPc("complete")
    /\ oplog' = oplog \o <<Op("final_node_stats", "", "success"),
                          Op("final_rel_stats", "", "success")>>
    /\ UNCHANGED <<runNo, reset, csv_files, force_regenerate_plans,
          limit_text_files,
                   goal_file, selection_file, construction_file, extraction_file,
                   goal, file_selection, selected_text, construction_plan,
                   extraction_plan, mode, hist, constraints, indexes, nodes,
                   rels, edges, similarity_threshold, results, outcome,
                   faults>>

\* The store after the imports that ran before an exception.
PartialImport(r) ==
    /\ constraints' = r.constraints /\ nodes' = r.nodes
    /\ rels' = r.rels /\ oplog' = oplog \o r.oplog

\* An exception raised inside one of the graph phases: in the domain phase
\* after the first k entries of the plan were imported, in the other phases
\* on entry.  Lines 450-455 end the run with status error.
PhaseRaises ==
    /\ pc \in {"domain", "subject", "resolve", "complete"}
    /\ pc = "subject" => RunsSubjectPhase(selected_text)
    /\ faults < MaxFail /\ faults' = faults + 1
    /\ started' = Append(started, pc)
    /\ Raise(pc)
    /\ IF pc = "domain"
       THEN \E k \in 0..Len(construction_plan.entries) :
              PartialImport(import_all(
                  MatState(constraints, nodes, rels, <<>>, <<>>, <<>>, <<>>),
                  SubSeq(construction_order(construction_plan.entries), 1, k),
                  {}))
       ELSE UNCHANGED <<constraints, nodes, rels, oplog>>
    /\ UNCHANGED <<runNo, reset, csv_files, force_regenerate_plans,
          limit_text_files,
                   goal_file, selection_file, construction_file, extraction_file,
                   goal, file_selection, selected_text, construction_plan,
                   extraction_plan, returned, mode, hist, indexes, edges,
                   similarity_threshold, results, outcome>>

\* The store and the result document after a direct call of reset_graph.
ResetCallOutcome(confirm, r) ==
    /\ StoreAfterReset(r)
    /\ oplog' = r.oplog
    /\ results' = [kind |-> "reset_call", confirm |-> confirm,
                   raised |-> r.raised, status |-> r.status,
                   indexes_dropped |-> r.indexes_dropped,
                   data_cleared |-> r.data_cleared]

\* reset_graph called directly, outside a run, with or without confirmation.
ResetGraphCall(confirm) ==
    /\ pc \in {"idle", "returned"}
    /\ \E F \in ResetFailures(MaxFail) :
       \E survC \in Survivors(constraints, "drop_constraint" \in F) :
       \E survI \in Survivors(indexes, "drop_index" \in F) :
         ResetCallOutcome(confirm,
             reset_graph(confirm, constraints, indexes, nodes, rels, edges,
                         F, survC, survI))
    /\ UNCHANGED <<pc, runNo, reset, csv_files, force_regenerate_plans,
          limit_text_files,
                   goal_file, selection_file, construction_file, extraction_file,
                   goal, file_selection, selected_text, construction_plan,
                   extraction_plan, status, started, returned, mode, hist,
                   similarity_threshold, outcome, faults>>

Next ==
    \/ \E r \in BOOLEAN, f \in BOOLEAN, l \in Limits : StartRun(r, f, l)
    \/ ResetPhase
    \/ SkipReset
    \/ Phase1
    \/ Phase2
    \/ Phase3
    \/ Phase4
    \/ Phase5
    \/ SkipPhase5
    \/ Phase6
    \/ Complete
    \/ PhaseRaises

Spec == Init /\ [][Next]_vars

\* ------------------------------------------------- reset_graph on its own
\* reset_graph called on a builder outside any run, on stores holding any
\* part of a graph left by earlier work.
ResetStores ==
    {[constraints |-> c, indexes |-> i, nodes |-> n, edges |-> e] :
        c \in SUBSET {"Product", "Supplier"}, i \in SUBSET {"idx"},
        n \in SUBSET {OldProduct, OldEntity}, e \in SUBSET {OldEdge}}

InitReset ==
    /\ InitIdle
    /\ \E st \in ResetStores :
          /\ st.edges # {} => st.nodes = {OldProduct, OldEntity}
          /\ constraints = st.constraints /\ indexes = st.indexes
          /\ nodes = st.nodes /\ edges = st.edges
    /\ rels = {}

NextReset == \E confirm \in BOOLEAN : ResetGraphCall(confirm)

SpecReset == InitReset /\ [][NextReset]_vars

\* ------------------------------------------------ the materializer on its own
\* phase4_build_domain_graph handed a construction plan whose entries come
\* in any order (the plan file is loaded as it is found).
PlanEntries == {ProductEntry, SupplierEntry, MappedToEntry}

AnyPlans == UNION {Orders(S) : S \in SUBSET PlanEntries}

LoadedMode == [p \in PlanningPhases |-> [did |-> "loaded", present |-> TRUE]]

\* A run that loaded its three artifacts and stands before the domain phase.
InitMaterializer ==
    /\ pc = "domain" /\ runNo = 1
    /\ reset = FALSE /\ force_regenerate_plans = FALSE /\ limit_text_files = NoLimit
    /\ csv_files = StandardFiles
    /\ goal_file = [present |-> TRUE, run |-> 0] /\ goal = goal_file
    /\ selection_file = [present |-> TRUE, run |-> 0, goal_run |-> 0,
                         approved_text_files |-> <<>>]
    /\ file_selection = selection_file /\ selected_text = <<>>
    /\ \E entries \in AnyPlans :
          construction_file = [present |-> TRUE, run |-> 0, goal_run |-> 0,
                               sel_run |-> 0, entries |-> entries]
    /\ construction_plan = construction_file
    /\ extraction_file = [present |-> TRUE, run |-> 0, goal_run |-> 0,
                          sel_run |-> 0, text_files |-> <<>>]
    /\ extraction_plan = extraction_file
    /\ status = "running"
    /\ started = <<"goal", "files", "schema">> /\ returned = started
    /\ mode = LoadedMode /\ hist = InitHist
    /\ \E st \in InitStores :
          /\ constraints = st.constraints /\ indexes = st.indexes
          /\ nodes = st.nodes /\ edges = st.edges
    /\ rels = {} /\ oplog = <<>> /\ similarity_threshold = DefaultThreshold
    /\ results = NoResults /\ outcome = {} /\ faults = 0

\* Any number of the queries of the call may fail.
MaterializerCall == BuildDomainGraph(2 * Len(construction_plan.entries))

NextMaterializer == MaterializerCall

SpecMaterializer == InitMaterializer /\ [][NextMaterializer]_vars

\* ---------------------------------------------- the linkage agent on its own
\* Agents constructed with any of these thresholds run resolve_all_entities
\* and remove_existing_correspondences on a store holding a subject and a
\* domain population.
Thresholds == {Zero, [n |-> 3, d |-> 5], [n |-> 2, d |-> 3], One}

SubjectProduct(name, product) ==
    Node(<<"__Entity__", "e1">>, TRUE, "Product", name, product, Absent)

DomainProduct(key, product_name) ==
    Node(<<"Product", key>>, FALSE, "Product", Absent, Absent, product_name)

SubjectSupplier ==
    Node(<<"__Entity__", "e2">>, TRUE, "Supplier", <<"c", "d">>, Absent, Absent)

DomainSupplier ==
    Node(<<"Supplier", "s1">>, FALSE, "Supplier", <<"c", "d">>, Absent, Absent)

\* The text-derived product: named "ab" or "xy", named by the empty string or
\* by a number, carrying only the product property, or absent.
SubjectChoices ==
    {{}} \cup {{SubjectProduct(v[1], v[2])} :
                  v \in {<<(<<"a", "b">>), Absent>>, <<(<<"x", "y">>), Absent>>,
                         <<NonString, Absent>>, <<Absent, (<<"a", "b">>)>>,
                         <<(<<>>), Absent>>}}

FirstCandidates ==
    {{}} \cup {{DomainProduct("p1", v)} :
                  v \in {<<"a", "b">>, <<"a", "c">>, <<"x", "y">>, <<"A", "b", " ">>}}

SecondCandidates ==
    {{}} \cup {{DomainProduct("p2", v)} :
                  v \in {<<"a", "d">>, <<"a", "x", "y", "z">>, <<>>}}

SupplierChoices == {{}, {SubjectSupplier, DomainSupplier}}

LinkPopulations ==
    {a \cup b \cup c \cup d : a \in SubjectChoices, b \in FirstCandidates,
                              c \in SecondCandidates, d \in SupplierChoices}

\* The domain relationships of a population: the supplier, when there, is
\* mapped to the first product.
MappedPairs(ns) ==
    IF DomainSupplier \in ns
    THEN {[type |-> "MAPPED_TO", from |-> <<"Product", "p1">>,
           to |-> DomainSupplier.id]}
    ELSE {}

InitLinkage ==
    /\ InitIdle
    /\ nodes \in LinkPopulations
    /\ rels = MappedPairs(nodes)
    /\ constraints = {} /\ indexes = {} /\ edges = {}

\* The store and the result document after a call of the agent.
LinkCallOutcome(r) ==
    /\ edges' = r.edges
    /\ oplog' = r.oplog
    /\ outcome' = r.outcome
    /\ results' = [kind |-> "resolution",
                   total_relationships |-> r.total_relationships,
                   entities_resolved |-> r.entities_resolved,
                   entities_unresolved |-> r.entities_unresolved,
                   errors |-> r.errors]

\* AutomatedLinkageAgent(t).resolve_all_entities()
ResolveAllCall(t) ==
    /\ pc = "idle" /\ runNo < MaxCalls
    /\ runNo' = runNo + 1
    /\ similarity_threshold' = t
    /\ \E ord \in ProductOrders(nodes), F \in LinkFailures(nodes, MaxFail) :
         /\ LinkCallOutcome(resolve_all_entities(nodes, edges, DefaultEntityTypes,
                                                 t, ord, F))
         /\ hist' = [InitHist EXCEPT !.edges_before = edges, !.ord = ord]
    /\ UNCHANGED <<pc, reset, csv_files, force_regenerate_plans,
          limit_text_files,
                   goal_file, selection_file, construction_file, extraction_file,
                   goal, file_selection, selected_text, construction_plan,
                   extraction_plan, status, started, returned, mode,
                   constraints, indexes, nodes, rels, faults>>

\* remove_existing_correspondences()
RemoveCall ==
    /\ pc = "idle" /\ runNo < MaxCalls
    /\ runNo' = runNo + 1
    /\ \E F \in {{}, {<<"query", <<"remove", "all">>>>}} :
         /\ edges' = remove_existing_correspondences(edges, F)
         /\ oplog' = <<Op("remove_edges", "", Reply(F # {}))>>
         /\ results' = [kind |-> "removal", status |-> Reply(F # {})]
    /\ outcome' = {}
    /\ hist' = [InitHist EXCEPT !.edges_before = edges]
    /\ UNCHANGED <<pc, reset, csv_files, force_regenerate_plans,
          limit_text_files,
                   goal_file, selection_file, construction_file, extraction_file,
                   goal, file_selection, selected_text, construction_plan,
                   extraction_plan, status, started, returned, mode,
                   constraints, indexes, nodes, rels, similarity_threshold,
                   faults>>

NextLinkage ==
    \/ \E t \in Thresholds : ResolveAllCall(t)
    \/ RemoveCall

SpecLinkage == InitLinkage /\ [][NextLinkage]_vars

\* ----------------------------------------------- the schema agent on its own
\* generate_construction_plan and the analyze_csv_schema tool called on the
\* tabular files of a data directory.
InitSchema ==
    /\ InitBuilder /\ csv_files \in CsvFileLists
    /\ constraints = {} /\ indexes = {} /\ nodes = {} /\ rels = {} /\ edges = {}

PlanResult(call, r) ==
    [kind |-> "plan", call |-> call, raised |-> r.raised,
     file_analyses |-> r.file_analyses, relationships |-> r.relationships,
     construction_plan |-> r.construction_plan]

GeneratePlanCall ==
    /\ runNo < MaxCalls
    /\ runNo' = runNo + 1
    /\ results' = PlanResult(runNo + 1, generate_construction_plan(csv_files))
    /\ UNCHANGED <<pc, reset, csv_files, force_regenerate_plans, limit_text_files,
                   goal_file, selection_file, construction_file, extraction_file,
                   goal, file_selection, selected_text, construction_plan,
                   extraction_plan, status, started, returned, mode, hist,
                   constraints, indexes, nodes, rels, edges, oplog,
                   similarity_threshold, outcome, faults>>

AnalyzeSchemaCall(i) ==
    /\ runNo < MaxToolCalls
    /\ runNo' = runNo + 1
    /\ results' = [kind |-> "schema_analysis", call |-> runNo + 1, file |-> i,
                   reply |-> analyze_csv_schema(csv_files[i])]
    /\ UNCHANGED <<pc, reset, csv_files, force_regenerate_plans, limit_text_files,
                   goal_file, selection_file, construction_file, extraction_file,
                   goal, file_selection, selected_text, construction_plan,
                   extraction_plan, status, started, returned, mode, hist,
                   constraints, indexes, nodes, rels, edges, oplog,
                   similarity_threshold, outcome, faults>>

\* The node-plan tool, called with the analysis of a file.
GenerateNodePlanCall(i) ==
    /\ runNo < MaxToolCalls
    /\ analyze_csv_schema(csv_files[i]).status = "success"
    /\ runNo' = runNo + 1
    /\ results' = [kind |-> "node_plan", call |-> runNo + 1, file |-> i,
                   reply |-> analyze_csv_schema(csv_files[i]),
                   plan |-> generate_node_plan(analyze_csv_schema(csv_files[i]))]
    /\ UNCHANGED <<pc, reset, csv_files, force_regenerate_plans, limit_text_files,
                   goal_file, selection_file, construction_file, extraction_file,
                   goal, file_selection, selected_text, construction_plan,
                   extraction_plan, status, started, returned, mode, hist,
                   constraints, indexes, nodes, rels, edges, oplog,
                   similarity_threshold, outcome, faults>>

NextSchema ==
    \/ GeneratePlanCall
    \/ \E i \in 1..Len(csv_files) : AnalyzeSchemaCall(i)
    \/ \E i \in 1..Len(csv_files) : GenerateNodePlanCall(i)

SpecSchema == InitSchema /\ [][NextSchema]_vars

\* =================================================================== claims
\* Position of a phase in the fixed order.
PhaseIndex(p) == CHOOSE i \in 1..Len(Phases) : Phases[i] = p

IsPrefix(s, t) == Len(s) <= Len(t) /\ SubSeq(t, 1, Len(s)) = s

\* The phases that precede p in the fixed order.
Before(p) == {Phases[i] : i \in 1..(PhaseIndex(p) - 1)}

\* The in-memory result and the persisted artifact of a planning phase (the
\* schema phase's artifact is the pair of plan files).
LocalOf(p) ==
    CASE p = "goal" -> <<goal>>
      [] p = "files" -> <<file_selection>>
      [] OTHER -> <<construction_plan, extraction_plan>>

FileOf(p) ==
    CASE p = "goal" -> <<goal_file>>
      [] p = "files" -> <<selection_file>>
      [] OTHER -> <<construction_file, extraction_file>>

PreviousFileOf(p) ==
    CASE p = "goal" -> <<hist.goal_file>>
      [] p = "files" -> <<hist.selection_file>>
      [] OTHER -> <<hist.construction_file, hist.extraction_file>>

\* C1: in every run the phases start in the order goal, files, schema,
\* domain, subject, resolve, complete; a phase starts only when every phase
\* started before it has returned; no phase starts twice; the only phase a
\* run may pass over is the subject phase, and the subject phase starts only
\* if the selected text-file list is not empty.
C1_PhaseOrder ==
    /\ \A i, j \in 1..Len(started) :
          i < j => PhaseIndex(started[i]) < PhaseIndex(started[j])
    /\ IsPrefix(returned, started)
    /\ Len(started) <= Len(returned) + 1
    /\ \A i \in 1..Len(started) :
          \A q \in Before(started[i]) :
             q \in SeqToSet(returned) \/ (q = "subject" /\ selected_text = <<>>)
    /\ "subject" \in SeqToSet(started) => selected_text # <<>>

\* A run went through all seven phases.
C1_Witness ==
    /\ status = "success" /\ pc = "returned"
    /\ started = Phases /\ returned = Phases

\* C2: a planning phase (goal, files, schema) entered with its artifact
\* present and regeneration not forced loads the artifact and does not invoke
\* its component; entered otherwise it invokes the component, and once the
\* phase has returned the result of this run is in the artifact file, before
\* the next phase starts.
C2_LoadOrGenerate ==
    \A p \in PlanningPhases :
       p \in SeqToSet(started) =>
          /\ (mode[p].present /\ ~force_regenerate_plans)
                => /\ mode[p].did = "loaded"
                   /\ p \in SeqToSet(returned)
                   /\ LocalOf(p) = FileOf(p)
                   /\ FileOf(p) = PreviousFileOf(p)
          /\ ~(mode[p].present /\ ~force_regenerate_plans)
                => /\ mode[p].did \in {"generated", "failed"}
                   /\ (p \in SeqToSet(returned)) = (mode[p].did = "generated")
          /\ (p \in SeqToSet(returned) /\ mode[p].did = "generated")
                => /\ LocalOf(p) = FileOf(p)
                   /\ \A k \in 1..Len(FileOf(p)) :
                         FileOf(p)[k].present /\ FileOf(p)[k].run = runNo

\* A run that loaded the goal and generated and persisted the file selection.
C2_Witness ==
    /\ mode["goal"].did = "loaded"
    /\ mode["files"].did = "generated"
    /\ "files" \in SeqToSet(returned)
    /\ selection_file.run = runNo /\ goal_file.run < runNo

\* C3 as stated: after a run that failed, the next run without forced
\* regeneration executes no phase that returned in the failed run (it only
\* loads their artifacts) and resumes at the first phase that never completed.
C3_ResumesAtFailedPhase ==
    (runNo >= 2 /\ hist.failed_at # "none" /\ ~force_regenerate_plans)
       => \A p \in SeqToSet(hist.returned) :
             p \in SeqToSet(started)
                => p \in PlanningPhases /\ mode[p].did = "loaded"

\* C3, amended: an exception inside a phase ends the run with status error
\* and no later phase starts; the artifacts of the planning phases that
\* returned are left as those phases loaded or wrote them; the next run
\* without forced regeneration loads each of these artifacts unchanged
\* instead of invoking the component (the graph phases keep no artifact and
\* are executed again).
C3_ArtifactsSurvive ==
    /\ status = "error"
          => /\ pc = "returned"
             /\ IsPrefix(returned, started)
             /\ Len(started) <= Len(returned) + 1
             /\ \A p \in PlanningPhases :
                   p \in SeqToSet(returned)
                      => /\ LocalOf(p) = FileOf(p)
                         /\ \A k \in 1..Len(FileOf(p)) : FileOf(p)[k].present
    /\ (runNo >= 2 /\ hist.failed_at # "none" /\ ~force_regenerate_plans)
          => \A p \in PlanningPhases :
                (p \in SeqToSet(hist.returned) /\ p \in SeqToSet(started))
                   => /\ mode[p].did = "loaded"
                      /\ LocalOf(p) = PreviousFileOf(p)
                      /\ FileOf(p) = PreviousFileOf(p)

\* The run after one that failed in the schema phase loads the goal and the
\* file selection and generates the plans.
C3_Witness ==
    /\ runNo >= 2 /\ hist.failed_at = "schema" /\ ~force_regenerate_plans
    /\ mode["goal"].did = "loaded" /\ mode["files"].did = "loaded"
    /\ mode["schema"].did = "generated"

\* The queries a reset sends.
WipeOps ==
    {"show_constraints", "drop_constraint", "show_indexes", "drop_index",
     "clear_data"}

\* C4: a run started with reset requested has the store's data and all its
\* index and constraint definitions wiped when the goal phase starts, and no
\* wipe query is sent after any other query of the run; a run started without
\* reset sends no wipe query.
C4_ResetWipesBeforeGoal ==
    /\ (pc = "goal" /\ reset)
          => /\ nodes = {} /\ rels = {} /\ edges = {}
             /\ constraints = {} /\ indexes = {}
    /\ \A i, j \in 1..Len(oplog) :
          (i < j /\ oplog[i].op \notin WipeOps) => oplog[j].op \notin WipeOps
    /\ (pc # "idle" /\ ~reset)
          => \A i \in 1..Len(oplog) : oplog[i].op \notin WipeOps

\* C5: a call of reset_graph without confirmation sends no query to the
\* store, leaves its data and its definitions as they were and returns an
\* error result.
C5_UnconfirmedResetIsInert ==
    [][(results'.kind = "reset_call" /\ ~results'.confirm)
          => /\ oplog' = <<>>
             /\ nodes' = nodes /\ rels' = rels /\ edges' = edges
             /\ constraints' = constraints /\ indexes' = indexes
             /\ results'.status = "error" /\ ~results'.raised]_vars

\* An unconfirmed call on a store holding data and definitions.
C5_Witness ==
    /\ results.kind = "reset_call" /\ ~results.confirm
    /\ nodes # {} /\ constraints # {} /\ indexes # {}

\* The entries of the plan the materializer was handed.
PlanKeys(type) ==
    {e.key : e \in {x \in SeqToSet(construction_plan.entries) :
                       x.construction_type = type}}

OpsOf(names) == {i \in 1..Len(oplog) : oplog[i].op \in names}

\* C6: whatever the order of the entries of the plan, every query of a node
\* entry (constraint, upsert) precedes every query of a relationship entry
\* and every node entry is processed; for a node entry the constraint query
\* precedes the upsert, and the upsert is sent exactly when the constraint
\* query succeeded.
C6_NodesBeforeRelationships ==
    /\ \A i \in OpsOf({"load_rels"}) :
          \A j \in OpsOf({"create_constraint", "load_nodes"}) : j < i
    /\ \A j \in OpsOf({"load_nodes"}) :
          \E i \in OpsOf({"create_constraint"}) :
             i < j /\ oplog[i].arg = oplog[j].arg /\ oplog[i].reply = "success"
    /\ \A i \in OpsOf({"create_constraint"}) :
          (oplog[i].reply = "success")
             = (\E j \in OpsOf({"load_nodes"}) : oplog[j].arg = oplog[i].arg)
    /\ pc = "subject"
          => /\ \A k \in PlanKeys("node") :
                   \E i \in OpsOf({"create_constraint"}) : oplog[i].arg = k
             /\ \A k \in PlanKeys("relationship") :
                   \E i \in OpsOf({"load_rels"}) : oplog[i].arg = k

\* A plan that lists a relationship entry first was executed, and the
\* constraint query of one node entry failed.
C6_Witness ==
    /\ pc = "subject"
    /\ Len(construction_plan.entries) = 3
    /\ construction_plan.entries[1].construction_type = "relationship"
    /\ \E i \in OpsOf({"create_constraint"}) : oplog[i].reply = "error"
    /\ \E i \in OpsOf({"load_rels"}) : oplog[i].reply = "success"

\* The entries one of whose queries failed.
FailedKeys == {oplog[i].arg : i \in {j \in 1..Len(oplog) : oplog[j].reply = "error"}}

NoRepeat(s) == \A i, j \in 1..Len(s) : s[i] = s[j] => i = j

\* What a successful entry leaves in the store.
Committed(e) ==
    IF e.construction_type = "node"
    THEN e.label \in constraints /\ CsvNodes(e.source_file, e.label) \subseteq nodes
    ELSE \A q \in CsvPairs(e.source_file) :
            ((\E n \in nodes : n.id = <<e.from_node_label, q[1]>>)
                /\ (\E n \in nodes : n.id = <<e.to_node_label, q[2]>>))
               => [type |-> e.label, from |-> <<e.from_node_label, q[1]>>,
                   to |-> <<e.to_node_label, q[2]>>] \in rels

\* C7: after the materializer ran a plan, every entry was attempted; the
\* error list holds each failed entry exactly once and nothing else; every
\* other entry is listed as created and what it wrote is in the store; and
\* the run stands before the next phase, not ended.
C7_BatchNotAborted ==
    pc = "subject"
       => /\ status = "running" /\ results.kind = "domain"
          /\ \A k \in PlanKeys("node") :
                \E i \in OpsOf({"create_constraint"}) : oplog[i].arg = k
          /\ \A k \in PlanKeys("relationship") :
                \E i \in OpsOf({"load_rels"}) : oplog[i].arg = k
          /\ NoRepeat(results.errors)
          /\ SeqToSet(results.errors) = FailedKeys
          /\ NoRepeat(results.nodes_created)
          /\ NoRepeat(results.relationships_created)
          /\ SeqToSet(results.nodes_created) = PlanKeys("node") \ FailedKeys
          /\ SeqToSet(results.relationships_created)
                = PlanKeys("relationship") \ FailedKeys
          /\ \A e \in SeqToSet(construction_plan.entries) :
                e.key \notin FailedKeys => Committed(e)

\* The first node entry failed; the second node entry and the relationship
\* entry were still imported.
C7_Witness ==
    /\ pc = "subject"
    /\ results.errors = <<"Product">>
    /\ results.nodes_created = <<"Supplier">>
    /\ results.relationships_created = <<"MAPPED_TO">>
    /\ DomainSupplier \in nodes

\* ------------------------------------------------------ claims on linkage
\* The subject entities of the store and, for one of them, its candidates,
\* its match value and the score of a candidate.
Subjects == {n \in nodes : n.ent}

CandidatesOf(s) == get_entities_by_type(nodes, s.type, "domain")

ValueOf(s) == subject_value(s, MatchField(s.type))

CandidateValue(s, d) == domain_value(d, MatchField(s.type))

ScoreOf(s, d) ==
    IF Truthy(CandidateValue(s, d))
    THEN calculate_similarity(ValueOf(s), CandidateValue(s, d))
    ELSE Zero

\* The comparison of s with one of its candidates raises.
RaisesFor(s) ==
    /\ Truthy(ValueOf(s))
    /\ \E d \in CandidatesOf(s) : SimilarityRaises(ValueOf(s), CandidateValue(s, d))

\* The highest score among the candidates of s (0 without candidates).
MaxScore(S) == CHOOSE x \in S : \A y \in S : RatGE(x, y)

BestScore(s) ==
    IF ~Truthy(ValueOf(s)) THEN Zero
    ELSE MaxScore({Zero} \cup {ScoreOf(s, d) : d \in CandidatesOf(s)})

BestCandidates(s) == {d \in CandidatesOf(s) : ScoreOf(s, d) = BestScore(s)}

\* The best candidate the store returned first.
RowOf(d) == CHOOSE i \in 1..Len(hist.ord) : hist.ord[i] = d

FirstBest(s) ==
    CHOOSE d \in BestCandidates(s) : \A x \in BestCandidates(s) : RowOf(d) <= RowOf(x)

EdgesFrom(es, s) == {e \in es : e.s = s.id}

Pairs(es) == {<<e.s, e.d>> : e \in es}

NodeOf(id) == CHOOSE n \in nodes : n.id = id

\* The last call was a resolution run, it fetched s, and the query for the
\* candidates of s succeeded.
Fetched(s) == \E o \in outcome : o[1] = s.id

DomainFetched(s) == Op("get_domain", s.type, "success") \in SeqToSet(oplog)

\* C8 as stated: in every store state reached through resolution runs each
\* subject entity has at most one correspondence edge, and that edge points
\* to its highest-scoring candidate, whose score is at or above the threshold.
C8_AtMostOneEdgeEver ==
    \A s \in Subjects :
       /\ Cardinality(EdgesFrom(edges, s)) <= 1
       /\ \A e \in EdgesFrom(edges, s) :
             /\ NodeOf(e.d) \in BestCandidates(s)
             /\ RatGE(BestScore(s), similarity_threshold)

\* C8, amended: a resolution run removes no edge; it writes at most one edge
\* per subject entity, to a highest-scoring candidate whose score is at or
\* above the threshold of the run, the edge carrying that score; so the store
\* holds at most one edge per subject, to its highest-scoring candidate at or
\* above the threshold, after a run that started without edges.
C8_AtMostOneEdgePerRun ==
    results.kind = "resolution"
       => /\ Pairs(hist.edges_before) \subseteq Pairs(edges)
          /\ \A e \in edges : \E s \in Subjects : e.s = s.id
          /\ \A s \in Subjects :
                /\ Cardinality(EdgesFrom(edges, s) \ hist.edges_before) <= 1
                /\ \A e \in EdgesFrom(edges, s) \ hist.edges_before :
                      /\ NodeOf(e.d) \in BestCandidates(s)
                      /\ e.sim = BestScore(s)
                      /\ RatGE(BestScore(s), similarity_threshold)
                /\ hist.edges_before = {}
                      => Cardinality(EdgesFrom(edges, s)) <= 1

\* A run that started without edges chose between two candidates and wrote
\* the edge.
C8_Witness ==
    /\ results.kind = "resolution" /\ hist.edges_before = {}
    /\ \E s \in Subjects :
          /\ Cardinality(CandidatesOf(s)) = 2
          /\ Cardinality(BestCandidates(s)) = 1
          /\ Cardinality(EdgesFrom(edges, s)) = 1

\* The subjects of one type that a run counted with an outcome other than
\* resolved.
NotResolved(type) ==
    {o \in outcome : o[2] # "resolved" /\ NodeOf(o[1]).type = type}

\* C9: a subject entity the run fetched whose best candidate score is
\* strictly below the threshold gets no edge from the run (no write is sent
\* for it, its edges are those it had) and is counted as unresolved.
C9_BelowThresholdUnresolved ==
    results.kind = "resolution"
       => /\ \A s \in Subjects :
                (Fetched(s) /\ ~RaisesFor(s)
                    /\ RatLT(BestScore(s), similarity_threshold))
                   => /\ <<s.id, "unresolved">> \in outcome
                      /\ \A i \in 1..Len(oplog) :
                            ~(oplog[i].op = "merge_edge" /\ oplog[i].arg = s.id)
                      /\ EdgesFrom(edges, s) = EdgesFrom(hist.edges_before, s)
          /\ \A i \in 1..Len(DefaultEntityTypes) :
                <<DefaultEntityTypes[i],
                  Cardinality(NotResolved(DefaultEntityTypes[i]))>>
                    \in results.entities_unresolved

\* A subject whose best candidate scores above 0 and below the threshold.
C9_Witness ==
    /\ results.kind = "resolution"
    /\ \E s \in Subjects :
          /\ Fetched(s) /\ DomainFetched(s) /\ ~RaisesFor(s)
          /\ RatGT(BestScore(s), Zero)
          /\ RatLT(BestScore(s), similarity_threshold)
          /\ <<s.id, "unresolved">> \in outcome

\* The subjects C10 speaks of: fetched by the run, with a match value and a
\* non-empty candidate population, compared without an exception.
Matchable(s) ==
    /\ Fetched(s) /\ DomainFetched(s)
    /\ Truthy(ValueOf(s)) /\ CandidatesOf(s) # {}
    /\ ~RaisesFor(s)

\* The edges of a run on the same populations with the same threshold, the
\* store returning its rows in one fixed order.
SameRunEdges ==
    resolve_all_entities(nodes, hist.edges_before, DefaultEntityTypes,
                         similarity_threshold, AnyOrder(nodes), {}).edges

AllSucceeded == \A i \in 1..Len(oplog) : oplog[i].reply = "success"

\* C10 as stated: for every threshold in [0,1], a subject with a match value
\* and candidates whose best score is at or above the threshold gets an edge
\* to a best-scoring candidate carrying that score; and the edges of a run
\* are a function of the populations and the threshold.
C10_AdoptsForEveryThreshold ==
    results.kind = "resolution"
       => /\ \A s \in Subjects :
                (Matchable(s) /\ <<s.id, "write_failed">> \notin outcome
                    /\ RatGE(BestScore(s), similarity_threshold))
                   => \E e \in EdgesFrom(edges, s) :
                         NodeOf(e.d) \in BestCandidates(s) /\ e.sim = BestScore(s)
          /\ AllSucceeded => edges = SameRunEdges

\* C10, amended: a subject with a match value and candidates gets an edge
\* exactly when its best score is at or above the threshold and above 0 and
\* the write succeeds; the edge goes to the best-scoring candidate that the
\* store returned first and carries the best score; otherwise the subject is
\* unresolved and its edges are those it had.
C10_AdoptsFirstBestAboveZero ==
    results.kind = "resolution"
       => \A s \in Subjects :
             Matchable(s)
                => IF RatGE(BestScore(s), similarity_threshold)
                        /\ RatGT(BestScore(s), Zero)
                   THEN \/ /\ <<s.id, "write_failed">> \in outcome
                           /\ EdgesFrom(edges, s) = EdgesFrom(hist.edges_before, s)
                        \/ /\ <<s.id, "resolved">> \in outcome
                           /\ [s |-> s.id, d |-> FirstBest(s).id,
                               sim |-> BestScore(s)] \in edges
                           /\ Pairs(EdgesFrom(edges, s))
                                 = Pairs(EdgesFrom(hist.edges_before, s))
                                      \cup {<<s.id, FirstBest(s).id>>}
                   ELSE /\ <<s.id, "unresolved">> \in outcome
                        /\ EdgesFrom(edges, s) = EdgesFrom(hist.edges_before, s)

\* Two candidates tie at the best score, which equals the threshold, and
\* the edge went to the one returned first.
C10_Witness ==
    /\ results.kind = "resolution"
    /\ \E s \in Subjects :
          /\ Matchable(s)
          /\ Cardinality(BestCandidates(s)) = 2
          /\ BestScore(s) = similarity_threshold
          /\ [s |-> s.id, d |-> FirstBest(s).id, sim |-> BestScore(s)] \in edges

\* A match value that is a string, possibly the empty one.
IsString(v) == v # Absent /\ v # NonString

\* The match strings of s and d are identical, or identical after lowering
\* the case and trimming.
SameAfterNormalizing(s, d) ==
    /\ IsString(ValueOf(s)) /\ IsString(CandidateValue(s, d))
    /\ StrStrip(StrLower(ValueOf(s))) = StrStrip(StrLower(CandidateValue(s, d)))

\* The run fetched s and its candidates, compared them without an exception
\* and no write for s failed.
Processed(s) ==
    /\ Fetched(s) /\ DomainFetched(s) /\ ~RaisesFor(s)
    /\ <<s.id, "write_failed">> \notin outcome

ScoreOneEdge(s) ==
    \E e \in EdgesFrom(edges, s) : e.sim = One /\ ScoreOf(s, NodeOf(e.d)) = One

\* C11 as stated: a subject and a candidate whose match strings are identical,
\* or identical after lowering the case and trimming, have similarity 1 and
\* the run writes an edge with score 1 for the subject, whatever the threshold
\* (at most 1).
C11_IdenticalStringsLinked ==
    results.kind = "resolution"
       => \A s \in Subjects : \A d \in CandidatesOf(s) :
             (Processed(s) /\ SameAfterNormalizing(s, d))
                => /\ calculate_similarity(ValueOf(s), CandidateValue(s, d)) = One
                   /\ ScoreOneEdge(s)

\* C11, amended: the same for match strings that are not empty; two empty
\* match strings have similarity 0 and are never linked.
C11_NonEmptyIdenticalStringsLinked ==
    results.kind = "resolution"
       => \A s \in Subjects : \A d \in CandidatesOf(s) :
             (Processed(s) /\ SameAfterNormalizing(s, d))
                => IF Truthy(ValueOf(s)) /\ Truthy(CandidateValue(s, d))
                   THEN /\ calculate_similarity(ValueOf(s), CandidateValue(s, d)) = One
                        /\ ScoreOneEdge(s)
                   ELSE /\ calculate_similarity(ValueOf(s), CandidateValue(s, d)) = Zero
                        /\ ~(\E e \in EdgesFrom(edges, s) : e.d = d.id)

\* With threshold 1 the subject "ab" is linked to the candidate "Ab " with
\* score 1.
C11_Witness ==
    /\ results.kind = "resolution" /\ similarity_threshold = One
    /\ \E s \in Subjects : \E d \in CandidatesOf(s) :
          /\ Processed(s) /\ SameAfterNormalizing(s, d)
          /\ ValueOf(s) # CandidateValue(s, d)
          /\ [s |-> s.id, d |-> d.id, sim |-> One] \in edges

\* C12: a call of remove_existing_correspondences that returns success leaves
\* no correspondence edge in the store (a count of them yields zero), however
\* many there were; a call that returns an error leaves them all; nodes,
\* the other relationships and the definitions are as they were in both cases.
C12_RemovalLeavesNoEdge ==
    [][results'.kind = "removal"
          => /\ results'.status = "success" => Cardinality(edges') = 0
             /\ results'.status = "error" => edges' = edges
             /\ nodes' = nodes /\ rels' = rels
             /\ constraints' = constraints /\ indexes' = indexes]_vars

\* Two correspondence edges and a domain relationship were there; the edges
\* are gone, the relationship is not.
C12_Witness ==
    /\ results.kind = "removal" /\ results.status = "success"
    /\ Cardinality(hist.edges_before) = 2
    /\ edges = {} /\ rels # {}

\* The subjects of a type the run fetched whose write failed or whose
\* comparison raised, and those that simply found no candidate to adopt.
Errored(type) ==
    {s \in Subjects :
        /\ s.type = type /\ Fetched(s)
        /\ \/ Op("merge_edge", s.id, "error") \in SeqToSet(oplog)
           \/ DomainFetched(s) /\ RaisesFor(s)}

NeverCleared(type) ==
    {s \in Subjects :
        /\ s.type = type /\ Fetched(s) /\ s \notin Errored(type)
        /\ Op("merge_edge", s.id, "success") \notin SeqToSet(oplog)}

UnresolvedCount(type) ==
    CHOOSE k \in 0..Cardinality(Subjects) :
        <<type, k>> \in results.entities_unresolved

AllErrored == UNION {Errored(DefaultEntityTypes[i]) : i \in 1..Len(DefaultEntityTypes)}

\* The error list names each subject with an error once and no other subject.
ErrorsListed ==
    /\ Len(results.errors) = Cardinality(AllErrored)
    /\ SeqToSet(results.errors) = {s.id : s \in AllErrored}

\* C13 as stated: the unresolved count of a type counts the subjects whose
\* similarity never cleared the threshold and not the subjects whose write
\* failed or whose processing raised, which are in the error list.
C13_ErrorsNotCountedUnresolved ==
    results.kind = "resolution"
       => /\ ErrorsListed
          /\ \A i \in 1..Len(DefaultEntityTypes) :
                UnresolvedCount(DefaultEntityTypes[i])
                   = Cardinality(NeverCleared(DefaultEntityTypes[i]))

\* C13, amended: a subject whose write failed or whose processing raised is
\* in the error list and is counted among the unresolved entities as well; a
\* subject whose similarity never cleared the threshold is counted as
\* unresolved and is not in the error list.
C13_ErrorsAlsoCountedUnresolved ==
    results.kind = "resolution"
       => /\ ErrorsListed
          /\ \A i \in 1..Len(DefaultEntityTypes) :
                UnresolvedCount(DefaultEntityTypes[i])
                   = Cardinality(NeverCleared(DefaultEntityTypes[i]))
                        + Cardinality(Errored(DefaultEntityTypes[i]))

\* One subject's write failed, another's comparison raised: two errors, two
\* unresolved.
C13_Witness ==
    /\ results.kind = "resolution"
    /\ Len(results.errors) = 2
    /\ Cardinality(Errored("Product")) = 1 /\ UnresolvedCount("Product") = 1
    /\ Cardinality(Errored("Supplier")) = 1 /\ UnresolvedCount("Supplier") = 1

\* ---------------------------------------------------------- schema claims
\* A file the analysis cannot read: it cannot be opened, or it has no header.
Unreadable(f) == ~f.readable \/ f.headers = NoHeaders

PlanMade == results.kind = "plan" /\ ~results.raised

Entries(res, type) ==
    {i \in 1..Len(res.construction_plan) :
        res.construction_plan[i].value.construction_type = type}

NodeLabels == {results.construction_plan[i].value.label : i \in Entries(results, "node")}

RelSpecs == {results.construction_plan[i].value : i \in Entries(results, "relationship")}

\* C14: a file list holding an unreadable file gives an analysis with an
\* error marker and no columns for that file, analyses of the other files,
\* and a plan that is the plan of the other files.
C14_UnreadableFileIsNotFatal ==
    results.kind = "plan" /\ (\E i \in 1..Len(csv_files) : Unreadable(csv_files[i]))
       => /\ \A i \in 1..Len(csv_files) :
                IF Unreadable(csv_files[i])
                THEN /\ HasKey(results.file_analyses[i], "error")
                     /\ results.file_analyses[i].headers = <<>>
                ELSE ~HasKey(results.file_analyses[i], "error")
          /\ ~results.raised
          /\ results.construction_plan
                = generate_construction_plan(
                      SelectSeq(csv_files, LAMBDA f : ~Unreadable(f))).construction_plan

\* C15: in every plan the builder returns, the from and to labels of every
\* relationship entry are labels of node entries of the same plan.
C15_RelationshipLabelsAreNodeLabels ==
    PlanMade => \A r \in RelSpecs : /\ r.from_node_label \in NodeLabels
                                    /\ r.to_node_label \in NodeLabels

\* The column is named <entity>_id for the entity label, whatever the case.
Referenced(fk, label) == StrLower(fk) = StrLower(label) \o <<"_", "i", "d">>

FromFile(analysis) ==
    {i \in Entries(results, "relationship") :
        results.construction_plan[i].value.source_file = analysis.file}

NodeNames(file_analyses) ==
    [i \in 1..Len(SelectSeq(file_analyses, YieldsNode)) |->
        SelectSeq(file_analyses, YieldsNode)[i].entity_type]

GeneratedNames(res) ==
    NodeNames(res.file_analyses)
       \o [k \in 1..Len(res.relationships) |-> RelKey(res.relationships[k], k - 1)]

SameAsBefore ==
    results.kind = "plan" /\ results'.kind = "plan"
       => /\ results'.raised = results.raised
          /\ results'.construction_plan = results.construction_plan

IsScenario ==
    /\ Len(csv_files) = 3
    /\ {csv_files[i].path : i \in 1..3}
          = {ProductsFile(<<>>).path, SuppliersFile(<<>>).path, MappingFile(<<>>).path}

\* Two node entries, Product and Supplier, and one relationship entry, of the
\* mapping file, between Product by product_id and Supplier by supplier_id.
ScenarioPlan ==
    /\ ~results.raised
    /\ Cardinality(Entries(results, "node")) = 2
    /\ NodeLabels = {<<"P", "r", "o", "d", "u", "c", "t">>, <<"S", "u", "p", "p", "l", "i", "e", "r">>}
    /\ Cardinality(Entries(results, "relationship")) = 1
    /\ \A r \in RelSpecs :
          /\ r.source_file = <<"p", "r", "o", "d", "u", "c", "t", "_", "s", "u", "p", "p", "l", "i", "e", "r", "_", "m", "a", "p", "p", "i", "n", "g", ".", "c", "s", "v">>
          /\ {<<r.from_node_label, r.from_node_column>>, <<r.to_node_label, r.to_node_column>>}
                = {<<<<"P", "r", "o", "d", "u", "c", "t">>, <<"p", "r", "o", "d", "u", "c", "t", "_", "i", "d">>>>, <<<<"S", "u", "p", "p", "l", "i", "e", "r">>, <<"s", "u", "p", "p", "l", "i", "e", "r", "_", "i", "d">>>>}

FirstColumnRepeats(f) == \E i, j \in 1..Len(f.rows) : i # j /\ f.rows[i][1] = f.rows[j][1]

\* C18 as stated: the three files of the scenario give the scenario's plan.
C18_ScenarioPlanForTheColumns ==
    results.kind = "plan" /\ IsScenario => ScenarioPlan

\* C18, amended: they do when the key columns of products.csv and
\* suppliers.csv hold no value twice; the rows of the mapping file may be any.
C18_ScenarioPlanForKeyedFiles ==
    /\ results.kind = "plan" /\ IsScenario
    /\ \A i \in 1..Len(csv_files) :
          csv_files[i].path # MappingFile(<<>>).path => ~FirstColumnRepeats(csv_files[i])
    => ScenarioPlan

\* The scenario with a mapping file that repeats a product.
C18_Witness ==
    /\ results.kind = "plan" /\ IsScenario /\ ScenarioPlan
    /\ \E i \in 1..3 : /\ csv_files[i].path = MappingFile(<<>>).path
                       /\ FirstColumnRepeats(csv_files[i])

\* The column of the file named id, when the file has one and the values of
\* the column are all different.
HasUniqueId(f) ==
    /\ ~Unreadable(f)
    /\ \E c \in 1..Len(f.headers) :
          /\ f.headers[c] = <<"i", "d">>
          /\ \A i, j \in 1..Len(f.rows) : i # j => f.rows[i][c] # f.rows[j][c]

\* C19: both analyzers classify a column named id with all values different
\* as a primary-key candidate, and neither as an attribute nor as a foreign
\* key, in every file.
C19_UniqueIdIsPrimaryKey ==
    /\ results.kind = "plan"
          => \A i \in 1..Len(csv_files) :
                HasUniqueId(csv_files[i])
                   => /\ <<"i", "d">> \in SeqToSet(results.file_analyses[i].id_columns)
                      /\ <<"i", "d">> \notin SeqToSet(results.file_analyses[i].properties)
                      /\ <<"i", "d">> \notin SeqToSet(results.file_analyses[i].foreign_keys)
    /\ results.kind = "schema_analysis" /\ HasUniqueId(csv_files[results.file])
          => /\ results.reply.status = "success"
             /\ <<"i", "d">> \in SeqToSet(results.reply.primary_key_candidates)
             /\ <<"i", "d">> \notin SeqToSet(results.reply.foreign_key_candidates)
             /\ \A c \in 1..Len(results.reply.columns) :
                   results.reply.columns[c].name = <<"i", "d">>
                      => results.reply.columns[c].column_type = "primary_key"

\* A mapping file whose id column is a key, analysed for the plan.
C19_Witness ==
    /\ results.kind = "plan"
    /\ \E i \in 1..Len(csv_files) :
          /\ HasUniqueId(csv_files[i])
          /\ results.file_analyses[i].is_relationship_table
          /\ results.file_analyses[i].id_columns[1] = <<"i", "d">>

\* ------------------------------------------------------- text file limit
\* The text files the subject phase was handed: those it processed and those
\* whose processing failed.
Attempted == SeqToSet(results.files_processed) \cup SeqToSet(results.files_failed)

Approved == file_selection.approved_text_files

AfterSelection == pc \in {"schema", "domain", "subject", "resolve", "complete"}

FirstApproved(n) == {Approved[i] : i \in 1..(IF n < Len(Approved) THEN n ELSE Len(Approved))}

KeyColumns(analysis) == SeqToSet(analysis.foreign_keys) \cup SeqToSet(analysis.id_columns)

\* The column names the label, the way the builder resolves it.
ResolvesTo(column, label) == Contains(Replace(StrLower(column), <<"_", "i", "d">>, <<>>), StrLower(label))

\* C21: a relationship table gives at most one relationship entry; its from
\* and to columns are two different key columns of the file, the from column
\* resolving to the from label and the to column to the to label.
C21_JoinsTwoDistinctForeignKeys ==
    PlanMade
       => \A a \in SeqToSet(results.file_analyses) :
             a.is_relationship_table
                => /\ Cardinality(FromFile(a)) <= 1
                   /\ \A i \in FromFile(a) :
                         LET r == results.construction_plan[i].value
                         IN /\ r.from_node_column # r.to_node_column
                            /\ r.from_node_column \in KeyColumns(a)
                            /\ r.to_node_column \in KeyColumns(a)
                            /\ ResolvesTo(r.from_node_column, r.from_node_label)
                            /\ ResolvesTo(r.to_node_column, r.to_node_label)

\* ------------------------------------------------------- plan-entry names
\* The entry of the plan stored under a name, and whether there is one.
HasEntry(name) == \E i \in 1..Len(results.construction_plan) : results.construction_plan[i].key = name

EntryOf(name) ==
    results.construction_plan[CHOOSE i \in 1..Len(results.construction_plan) :
                                 results.construction_plan[i].key = name].value

IsEntryOf(name, rel) ==
    /\ HasEntry(name)
    /\ EntryOf(name).construction_type = "relationship"
    /\ EntryOf(name).source_file = rel.source_file
    /\ EntryOf(name).relationship_type = rel.relationship_type
    /\ EntryOf(name).to_node_label = rel.to_entity

FirstOfItsType(k) ==
    \A j \in 1..(k - 1) :
        results.relationships[j].relationship_type # results.relationships[k].relationship_type

\* C22 as stated: no two generated specifications have the same entry name;
\* the first relationship of a type is stored under the type name, the later
\* ones of that type under the type name with an index suffix.
C22_FirstOfTypeUnsuffixed ==
    PlanMade
       => /\ Len(results.construction_plan) = Len(GeneratedNames(results))
          /\ \A k \in 1..Len(results.relationships) :
                IF FirstOfItsType(k)
                THEN IsEntryOf(results.relationships[k].relationship_type,
                               results.relationships[k])
                ELSE \E i \in 1..Len(results.relationships) :
                        IsEntryOf(results.relationships[k].relationship_type
                                     \o <<"_">> \o IntToStr(i),
                                  results.relationships[k])

\* The last analysed file that yields a node of the label.
LastWithLabel(label) ==
    CHOOSE i \in 1..Len(results.file_analyses) :
        /\ YieldsNode(results.file_analyses[i])
        /\ results.file_analyses[i].entity_type = label
        /\ \A j \in (i + 1)..Len(results.file_analyses) :
              ~(/\ YieldsNode(results.file_analyses[j])
                /\ results.file_analyses[j].entity_type = label)

\* C22, amended: only the first inferred relationship of the plan is stored
\* under its type name; the k-th of all inferred relationships (k counted
\* from 0, k > 0) is stored under the type name followed by _k, whether its
\* type occurs elsewhere or not.  Node entries are stored under the entity
\* label, and of the files that give the same label the last one keeps the
\* entry.
C22_FirstOfPlanUnsuffixed ==
    PlanMade
       => /\ \A k \in 1..Len(results.relationships) :
                IsEntryOf(IF k = 1 THEN results.relationships[k].relationship_type
                          ELSE results.relationships[k].relationship_type
                                  \o <<"_">> \o IntToStr(k - 1),
                          results.relationships[k])
          /\ \A a \in SeqToSet(results.file_analyses) :
                YieldsNode(a)
                   => /\ HasEntry(a.entity_type)
                      /\ EntryOf(a.entity_type).construction_type = "node"
                      /\ EntryOf(a.entity_type).source_file
                            = results.file_analyses[LastWithLabel(a.entity_type)].file

\* Two relationships of different types: the second, the only one of its
\* type, is stored with the suffix _1.
C22_Witness ==
    /\ PlanMade /\ Len(results.relationships) = 2
    /\ FirstOfItsType(2)
    /\ ~HasEntry(results.relationships[2].relationship_type)
    /\ HasEntry(results.relationships[2].relationship_type \o <<"_", "1">>)

\* ------------------------------------------------ foreign-key candidates
\* The name of the column ends with _id, whatever the case.
HasIdSuffix(header) ==
    /\ Len(header) >= 3
    /\ StrLower(SubSeq(header, Len(header) - 2, Len(header))) = <<"_", "i", "d">>

\* The column of the file holds a value twice.
Repeats(f, header) ==
    \E c \in 1..Len(f.headers) :
        /\ f.headers[c] = header
        /\ \E i, j \in 1..Len(f.rows) : i # j /\ f.rows[i][c] = f.rows[j][c]

\* The file name without directory and extension, in lower case.
Stem(f) == Replace(StrLower(Basename(f.path)), <<".", "c", "s", "v">>, <<>>)

HasToken(f) ==
    \/ Contains(<<"m", "a", "p", "p", "i", "n", "g">>, Stem(f))
    \/ Contains(<<"r", "e", "l", "a", "t", "i", "o", "n", "s", "h", "i", "p">>, Stem(f))
    \/ Contains(<<"_", "t", "o", "_">>, Stem(f))

Readable(i) == ~Unreadable(csv_files[i])

\* C23 as stated: in both analyzers a column is a foreign-key candidate
\* exactly when its name ends with _id and its values repeat; a column named
\* id is never one.
C23_ForeignKeyIffSuffixAndRepeats ==
    /\ results.kind = "plan"
          => \A i \in 1..Len(csv_files) :
                Readable(i)
                   => \A h \in SeqToSet(csv_files[i].headers) :
                         h \in SeqToSet(results.file_analyses[i].foreign_keys)
                            <=> HasIdSuffix(h) /\ Repeats(csv_files[i], h)
    /\ results.kind = "schema_analysis" /\ Readable(results.file)
          => \A h \in SeqToSet(csv_files[results.file].headers) :
                h \in SeqToSet(results.reply.foreign_key_candidates)
                   <=> HasIdSuffix(h) /\ Repeats(csv_files[results.file], h)

\* C23, amended.  The structural analyzer takes a column as a foreign key
\* exactly when its values repeat and either its name ends with _id or its
\* name is id and the file name holds a mapping token.  The analyze_csv_schema
\* tool takes a column as a foreign-key candidate exactly when its name ends
\* with _id and is not <file stem>_id, whatever its values.  The entity a
\* foreign key of an entity file is resolved to holds the lower-case column
\* name without _id in its lower-case name.
C23_ForeignKeyPerAnalyzer ==
    /\ results.kind = "plan"
          => /\ \A i \in 1..Len(csv_files) :
                   Readable(i)
                      => \A h \in SeqToSet(csv_files[i].headers) :
                            h \in SeqToSet(results.file_analyses[i].foreign_keys)
                               <=> /\ Repeats(csv_files[i], h)
                                   /\ \/ HasIdSuffix(h)
                                      \/ StrLower(h) = <<"i", "d">> /\ HasToken(csv_files[i])
             /\ \A k \in 1..Len(results.relationships) :
                   results.relationships[k].type = "reference"
                      => ResolvesTo(results.relationships[k].from_column,
                                    results.relationships[k].to_entity)
    /\ results.kind = "schema_analysis" /\ Readable(results.file)
          => \A h \in SeqToSet(csv_files[results.file].headers) :
                h \in SeqToSet(results.reply.foreign_key_candidates)
                   <=> /\ HasIdSuffix(h)
                       /\ StrLower(h) # Stem(csv_files[results.file]) \o <<"_", "i", "d">>

\* A mapping file whose id column repeats a value: id is its foreign key.
C23_Witness ==
    /\ results.kind = "plan"
    /\ \E i \in 1..Len(csv_files) :
          /\ Readable(i) /\ HasToken(csv_files[i])
          /\ Repeats(csv_files[i], <<"i", "d">>)
          /\ results.file_analyses[i].foreign_keys = <<<<"i", "d">>>>

\* ------------------------------------------------------ association tables
\* The columns of the file named id or *_id whose values are all different.
UniqueKeys(f) ==
    {h \in SeqToSet(f.headers) : (HasIdSuffix(h) \/ StrLower(h) = <<"i", "d">>) /\ ~Repeats(f, h)}

FewColumns(f) == Len(f.headers) <= 4

\* C24 as stated: in both analyzers a file is a table of relationships
\* exactly when its name holds a token or it has two foreign-key candidates
\* and few columns; every other file gets an entity label.
C24_AssociationIffTokenOrTwoForeignKeys ==
    /\ results.kind = "plan"
          => \A i \in 1..Len(csv_files) :
                Readable(i)
                   => /\ results.file_analyses[i].is_relationship_table
                            <=> \/ HasToken(csv_files[i])
                                \/ /\ Len(results.file_analyses[i].foreign_keys) >= 2
                                   /\ FewColumns(csv_files[i])
                      /\ ~results.file_analyses[i].is_relationship_table
                            => Truthy(results.file_analyses[i].entity_type)
    /\ results.kind = "schema_analysis" /\ Readable(results.file)
          => /\ results.reply.is_relationship_table
                   <=> \/ HasToken(csv_files[results.file])
                       \/ /\ Len(results.reply.foreign_key_candidates) >= 2
                          /\ FewColumns(csv_files[results.file])
             /\ ~results.reply.is_relationship_table
                   => results.reply.entity_type # <<"r", "e", "l", "a", "t", "i", "o", "n", "s", "h", "i", "p">>

\* C24, amended.  The structural analyzer takes a file as a table of
\* relationships exactly when its name holds a token, or it has two foreign
\* keys, or it has two unique key columns none of which is named id; the
\* number of columns plays no part.  The analyze_csv_schema tool takes it as
\* one exactly when it has two foreign-key candidates and at most four
\* columns; the file name plays no part.  Every other readable file gets an
\* entity label.
C24_AssociationPerAnalyzer ==
    /\ results.kind = "plan"
          => \A i \in 1..Len(csv_files) :
                Readable(i)
                   => /\ results.file_analyses[i].is_relationship_table
                            <=> \/ HasToken(csv_files[i])
                                \/ Len(results.file_analyses[i].foreign_keys) >= 2
                                \/ /\ Cardinality(UniqueKeys(csv_files[i])) >= 2
                                   /\ \A h \in UniqueKeys(csv_files[i]) : StrLower(h) # <<"i", "d">>
                      /\ ~results.file_analyses[i].is_relationship_table
                            => Truthy(results.file_analyses[i].entity_type)
    /\ results.kind = "schema_analysis" /\ Readable(results.file)
          => /\ results.reply.is_relationship_table
                   <=> /\ Len(results.reply.foreign_key_candidates) >= 2
                       /\ FewColumns(csv_files[results.file])
             /\ results.reply.is_relationship_table
                   <=> results.reply.entity_type = <<"r", "e", "l", "a", "t", "i", "o", "n", "s", "h", "i", "p">>
             /\ Truthy(results.reply.entity_type)

\* A file without token and without foreign keys whose two key columns are
\* unique was taken as a table of relationships, and a file of five columns
\* with two foreign keys as well.
C24_Witness ==
    /\ results.kind = "plan"
    /\ \E i \in 1..Len(csv_files) :
          /\ Readable(i) /\ ~HasToken(csv_files[i])
          /\ results.file_analyses[i].foreign_keys = <<>>
          /\ results.file_analyses[i].is_relationship_table
    /\ \E i \in 1..Len(csv_files) :
          /\ Readable(i) /\ ~HasToken(csv_files[i]) /\ ~FewColumns(csv_files[i])
          /\ results.file_analyses[i].is_relationship_table

\* ------------------------------------------------------ node specifications
\* The node entries of the plan made from file i.
NodesOf(i) ==
    {k \in Entries(results, "node") :
        results.construction_plan[k].value.source_file = Basename(csv_files[i].path)}

\* The first candidate, else the first column without a repeated value, else
\* the first column.
KeyFor(f, candidates) ==
    IF candidates # <<>> THEN candidates[1]
    ELSE IF \E c \in 1..Len(f.headers) : ~Repeats(f, f.headers[c])
         THEN f.headers[CHOOSE c \in 1..Len(f.headers) :
                           /\ ~Repeats(f, f.headers[c])
                           /\ \A d \in 1..(c - 1) : Repeats(f, f.headers[d])]
         ELSE f.headers[1]

\* All columns but the key and the foreign keys.
PropertiesFor(f, key, foreign_keys) ==
    SelectSeq(f.headers, LAMBDA h : h # key /\ h \notin SeqToSet(foreign_keys))

\* The specification is keyed and filled as C25 states.
AsStated(spec, f, candidates, foreign_keys) ==
    /\ spec.unique_column_name \in SeqToSet(f.headers)
    /\ spec.unique_column_name = KeyFor(f, candidates)
    /\ spec.properties = PropertiesFor(f, spec.unique_column_name, foreign_keys)

\* C25: every readable file that is not a table of relationships gets
\* exactly one node specification, keyed on its first primary-key candidate,
\* else its first unique column, else its first column; the key is a column
\* of the file and the properties are the other columns that are no foreign
\* keys.
C25_OneNodePerEntityFile ==
    /\ PlanMade
          => \A i \in 1..Len(csv_files) :
                ~results.file_analyses[i].is_relationship_table
                   => /\ Cardinality(NodesOf(i)) = 1
                      /\ \A k \in NodesOf(i) :
                            AsStated(results.construction_plan[k].value, csv_files[i],
                                     results.file_analyses[i].id_columns,
                                     results.file_analyses[i].foreign_keys)
    /\ results.kind = "node_plan" /\ ~results.reply.is_relationship_table
          => AsStated(results.plan, csv_files[results.file],
                      results.reply.primary_key_candidates,
                      results.reply.foreign_key_candidates)

\* ------------------------------------------------------ linkage populations
\* The step is the subject-graph phase of a run.
SubjectPhaseStep ==
    /\ Len(returned') = Len(returned) + 1
    /\ returned'[Len(returned')] = "subject"

\* C26: every entity the subject-graph phase writes under a type label is in
\* the subject population the linkage agent retrieves for that type and not
\* in the domain population, and the two populations of a type are disjoint.
C26_TextEntitiesAreSubjects ==
    [][SubjectPhaseStep
          => \A n \in nodes' \ nodes :
                /\ n \in get_entities_by_type(nodes', n.type, "subject")
                /\ n \notin get_entities_by_type(nodes', n.type, "domain")
                /\ get_entities_by_type(nodes', n.type, "subject")
                      \cap get_entities_by_type(nodes', n.type, "domain") = {}]_vars

\* ------------------------------------------------- edges after resolution
\* The edge joins a subject entity to a domain entity of its type, with a
\* score at or above the threshold.
WellFormedEdge(e) ==
    /\ \E n \in nodes : n.id = e.s /\ n.ent
    /\ \E n \in nodes : n.id = e.d /\ ~n.ent
    /\ \A n, m \in nodes : n.id = e.s /\ m.id = e.d => n.type = m.type
    /\ RatGE(e.sim, similarity_threshold)

\* The run wrote the edge: one of its queries merged an edge of the subject.
WrittenByRun(e) == Op("merge_edge", e.s, "success") \in SeqToSet(oplog)

\* C27: when the resolution phase of a run has returned, every
\* correspondence edge of the store was written by that run, joins a subject
\* entity to a domain entity of its type, and has a score at or above the
\* threshold, whatever edges the store held before.
C27_OnlyEdgesOfThisRun ==
    (results.kind = "resolution" /\ "resolve" \in SeqToSet(returned))
       => \A e \in edges : WrittenByRun(e) /\ WellFormedEdge(e)

\* -------------------------------------------------------- resolution counts
ResolvedCount(type) ==
    CHOOSE k \in 0..Cardinality(Subjects) : <<type, k>> \in results.entities_resolved

\* The subject and domain entities the last run retrieved for a type: those
\* of the store when the query succeeded, none when it failed.
Retrieved(type) ==
    IF Op("get_subject", type, "success") \in SeqToSet(oplog)
    THEN {n \in nodes : n.ent /\ n.type = type}
    ELSE {}

DomainRetrieved(type) ==
    IF Op("get_domain", type, "success") \in SeqToSet(oplog)
    THEN {n \in nodes : ~n.ent /\ n.type = type}
    ELSE {}

\* C28: for every type of a resolution run, resolved + unresolved is the
\* number of subject entities retrieved for the type (0 + 0 when there are
\* none, all unresolved when no domain entity was retrieved), every retrieved
\* subject is counted once, and total_relationships is the sum of the
\* resolved counts of the types.
C28_CountsAddUp ==
    results.kind = "resolution"
       => /\ \A i \in 1..Len(DefaultEntityTypes) :
                /\ ResolvedCount(DefaultEntityTypes[i]) + UnresolvedCount(DefaultEntityTypes[i])
                      = Cardinality(Retrieved(DefaultEntityTypes[i]))
                /\ DomainRetrieved(DefaultEntityTypes[i]) = {}
                      => /\ ResolvedCount(DefaultEntityTypes[i]) = 0
                         /\ UnresolvedCount(DefaultEntityTypes[i])
                               = Cardinality(Retrieved(DefaultEntityTypes[i]))
                /\ \A n \in Retrieved(DefaultEntityTypes[i]) :
                      Cardinality({o \in outcome : o[1] = n.id}) = 1
                /\ ResolvedCount(DefaultEntityTypes[i])
                      = Cardinality({o \in outcome :
                                        /\ o[2] = "resolved"
                                        /\ \E n \in Retrieved(DefaultEntityTypes[i]) : n.id = o[1]})
          /\ {o[1] : o \in outcome}
                = {n.id : n \in UNION {Retrieved(DefaultEntityTypes[i]) :
                                          i \in 1..Len(DefaultEntityTypes)}}
          /\ results.total_relationships
                = ResolvedCount("Product") + ResolvedCount("Supplier")
                     + ResolvedCount("Part") + ResolvedCount("Assembly")

\* A product subject was retrieved and no product of the domain: it is
\* counted unresolved, while the supplier subject was resolved.
C28_Witness ==
    /\ results.kind = "resolution"
    /\ Retrieved("Product") # {} /\ DomainRetrieved("Product") = {}
    /\ UnresolvedCount("Product") = 1 /\ ResolvedCount("Product") = 0
    /\ ResolvedCount("Supplier") = 1 /\ results.total_relationships = 1

\* ------------------------------------------------- artifacts of one run
Regenerated(p) == mode[p].did = "generated"

ArtifactFiles == <<goal_file, selection_file, construction_file, extraction_file>>

\* The run was asked to reset, not to regenerate, and found all four
\* artifacts of an earlier run.
ResetOverArtifacts ==
    /\ reset /\ ~force_regenerate_plans
    /\ hist.goal_file.present /\ hist.selection_file.present
    /\ hist.construction_file.present /\ hist.extraction_file.present

LoadedFromPrevious(p) ==
    /\ mode[p].did = "loaded"
    /\ FileOf(p) = PreviousFileOf(p)
    /\ p \in SeqToSet(returned) => LocalOf(p) = PreviousFileOf(p)

\* C30: the reset of a run leaves the four persisted artifacts as they are,
\* and in a run with reset and without forced regeneration that found the
\* artifacts of an earlier run every planning phase loads its artifact: no
\* goal, file-selection or schema component is invoked and the plans the run
\* builds the graph from are those the earlier run persisted.
C30_ResetKeepsArtifacts ==
    [][/\ pc = "reset" => ArtifactFiles' = ArtifactFiles
       /\ ResetOverArtifacts'
             => \A p \in PlanningPhases :
                   (p \in SeqToSet(started'))  => LoadedFromPrevious(p)']_vars

\* The second run reset the store, the data was cleared, the three planning
\* phases loaded the artifacts of the first run, and the products are in the
\* store again.
C30_Witness ==
    /\ runNo = 2 /\ ResetOverArtifacts
    /\ pc = "returned" /\ status = "success"
    /\ Op("clear_data", "", "success") \in SeqToSet(oplog)
    /\ \A p \in PlanningPhases : LoadedFromPrevious(p)
    /\ construction_plan.run = 1
    /\ \E n \in nodes : n.type = "Product"

====
